---- MODULE Spec2Model ----
(***************************************************************************)
(* Model of the STM32L4 NOR flash bank driver, src/flash/nor/stm32l4x.c.   *)
(*                                                                         *)
(* 32-bit register values are sets of bit positions (a subset of 0..31):   *)
(* | is \cup, & is \cap, & ~ is \ .  The flash controller, the debug       *)
(* transport and the working-area allocator are the driver's environment.  *)
(***************************************************************************)
EXTENDS Integers, Sequences, FiniteSets, TLC

(***************************************************************************)
(* Bounds of the model.                                                    *)
(***************************************************************************)
\* operations of one run of the controller specification
MaxOps == 2
\* a transport fault can hit any of the first MaxAccess target accesses of an operation
MaxAccess == 24
\* longest sector range (last - first) handed to erase and protect
MaxRange == 1

(***************************************************************************)
(* Bit sets.                                                               *)
(***************************************************************************)
BitsOf(n) == {k \in 0..30 : (n \div (2^k)) % 2 = 1}

RECURSIVE ValOf(_)
ValOf(S) == IF S = {} THEN 0
            ELSE LET k == CHOOSE x \in S : TRUE IN (2^k) + ValOf(S \ {k})

Shl(S, k) == {b + k : b \in {x \in S : x + k <= 31}}
Shr(S, k) == {b - k : b \in {x \in S : x >= k}}
Word(hi, lo) == BitsOf(lo) \cup Shl(BitsOf(hi), 16)
Byte(S) == ValOf(S \cap (0..7))

(***************************************************************************)
(* Register offsets and bits, stm32l4x.c:31-118.                           *)
(***************************************************************************)
FLASH_ERASE_TIMEOUT == 10000

FLASH_PG      == {0}
FLASH_PER     == {1}
FLASH_MER1    == {2}
FLASH_BKER    == {11}
FLASH_MER2    == {15}
FLASH_START   == {16}
FLASH_OPTSTRT == {17}
FLASH_OPTLOCK == {30}
FLASH_LOCK    == {31}

FLASH_SNB(a) == Shl(BitsOf(a), 3)

FLASH_BSY     == {16}
FLASH_OPTVERR == {15}
FLASH_RDERR   == {14}
FLASH_FASTERR == {9}
FLASH_MISERR  == {8}
FLASH_PGSERR  == {7}
FLASH_PGPERR  == {6}
FLASH_PGAERR  == {5}
FLASH_WRPERR  == {4}
FLASH_PROGERR == {3}
FLASH_OPERR   == {1}
FLASH_EOP     == {0}

FLASH_ERROR == FLASH_PROGERR \cup FLASH_PGSERR \cup FLASH_PGPERR \cup FLASH_PGAERR
               \cup FLASH_WRPERR \cup FLASH_OPERR \cup FLASH_OPTVERR \cup FLASH_RDERR
               \cup FLASH_FASTERR \cup FLASH_MISERR

KEY1    == Word(17767, 291)
KEY2    == Word(52719, 35243)
OPTKEY1 == Word(2073, 10811)
OPTKEY2 == Word(19549, 28287)

DBANK      == {22}
DUALBANK   == {21}
WWWG_SW    == {19}
IWDG_STDBY == {18}
IWDG_STOP  == {17}
IDWG_SW    == {16}

FLASH_BANK0_ADDRESS == 134217728

(***************************************************************************)
(* The part table as compiled in, stm32l4x.c:188-254.  The driver writes   *)
(* to it during probe, so the live table is the variable parts.            *)
(***************************************************************************)
PartIds == <<1045, 1077, 1122, 1121, 1136>>

stm32l4x_parts ==
  << [id |-> 1045, page_size |-> 2048, max_flash_size_kb |-> 1024,
      has_dual_bank |-> 1, first_bank_sectors |-> 256, hole_sectors |-> 0],
     [id |-> 1077, page_size |-> 2048, max_flash_size_kb |-> 256,
      has_dual_bank |-> 0, first_bank_sectors |-> 128, hole_sectors |-> 0],
     [id |-> 1122, page_size |-> 2048, max_flash_size_kb |-> 512,
      has_dual_bank |-> 0, first_bank_sectors |-> 256, hole_sectors |-> 0],
     [id |-> 1121, page_size |-> 2048, max_flash_size_kb |-> 1024,
      has_dual_bank |-> 1, first_bank_sectors |-> 256, hole_sectors |-> 0],
     [id |-> 1136, page_size |-> 4096, max_flash_size_kb |-> 2048,
      has_dual_bank |-> 1, first_bank_sectors |-> 256, hole_sectors |-> 0] >>


(***************************************************************************)
(* State.                                                                  *)
(***************************************************************************)
VARIABLES
  halted,   \* target->state = TARGET_HALTED
  hw,       \* flash controller registers and its two key sequencers
  parts,    \* the live stm32l4x_parts table
  bank,     \* struct flash_bank: size, base, num_sectors, sectors
  info,     \* struct stm32l4x_flash_bank (bank->driver_priv)
  areas,    \* target working areas currently allocated
  op,       \* the driver operation that returned last, with its register trace
  nops,     \* operations run so far
  stream    \* the streaming write in flight: stub, runner and ring

vars == <<halted, hw, parts, bank, info, areas, op, nops, stream>>

(***************************************************************************)
(* The flash controller as the driver sees it (register map and lock       *)
(* behaviour of the reference manual).                                     *)
(***************************************************************************)
HwReset == [CR |-> FLASH_LOCK \cup FLASH_OPTLOCK, SR |-> {},
            OPTR |-> BitsOf(170) \cup DUALBANK \cup DBANK,
            WRP1AR |-> BitsOf(255), WRP1BR |-> BitsOf(255),
            WRP2AR |-> BitsOf(255), WRP2BR |-> BitsOf(255),
            keyst |-> 0, optkeyst |-> 0]

\* KEYR: KEY1 then KEY2, back to back, clear LOCK.
HwKey(h, v) ==
  IF h.keyst = 1 /\ v = KEY2
  THEN [h EXCEPT !.CR = @ \ FLASH_LOCK, !.keyst = 0, !.optkeyst = 0]
  ELSE [h EXCEPT !.keyst = IF v = KEY1 THEN 1 ELSE 0, !.optkeyst = 0]

\* OPTKEYR: OPTKEY1 then OPTKEY2 clear OPTLOCK, once CR is unlocked.
HwOptKey(h, v) ==
  IF h.optkeyst = 1 /\ v = OPTKEY2 /\ h.CR \cap FLASH_LOCK = {}
  THEN [h EXCEPT !.CR = @ \ FLASH_OPTLOCK, !.keyst = 0, !.optkeyst = 0]
  ELSE [h EXCEPT !.optkeyst = IF v = OPTKEY1 THEN 1 ELSE 0, !.keyst = 0]

\* CR: ignored while LOCK is set; LOCK and OPTLOCK can be set, not cleared, by a
\* write; START and OPTSTRT start an operation, which raises BSY.
HwCR(h, v) ==
  IF h.CR \cap FLASH_LOCK # {} THEN h
  ELSE LET optlocked == h.CR \cap FLASH_OPTLOCK # {}
           nv == (IF optlocked THEN v \ FLASH_OPTSTRT ELSE v)
                 \cup (h.CR \cap FLASH_OPTLOCK)
           starts == nv \cap (FLASH_START \cup FLASH_OPTSTRT) # {}
       IN [h EXCEPT !.CR = nv,
                    !.SR = IF starts THEN @ \cup FLASH_BSY ELSE @]

\* SR: the error bits and EOP are write-one-to-clear.
HwSR(h, v) == [h EXCEPT !.SR = @ \ (v \cap (FLASH_ERROR \cup FLASH_EOP))]

\* option registers: writable once OPTLOCK is clear.
HwOpt(h, reg, v) ==
  IF h.CR \cap FLASH_OPTLOCK # {} THEN h ELSE [h EXCEPT ![reg] = v]

HwWrite(h, reg, v) ==
  LET g == [h EXCEPT !.keyst = 0, !.optkeyst = 0]
  IN CASE reg = "KEYR"    -> HwKey(h, v)
       [] reg = "OPTKEYR" -> HwOptKey(h, v)
       [] reg = "CR"      -> HwCR(g, v)
       [] reg = "SR"      -> HwSR(g, v)
       [] OTHER           -> HwOpt(g, reg, v)

\* What the controller does with a running operation by the time the driver
\* stops polling: BSY stays (stuck) or clears, and error bits may latch.
HwErrors == { {}, FLASH_WRPERR, FLASH_PGSERR }
Outcomes == [stuck : BOOLEAN, err : HwErrors]
Clean == [stuck |-> FALSE, err |-> {}]

HwFinish(h, o) ==
  IF h.SR \cap FLASH_BSY = {} THEN h
  ELSE [h EXCEPT !.SR = (IF o.stuck THEN @ ELSE @ \ FLASH_BSY) \cup o.err,
                 !.CR = IF o.stuck THEN @
                        ELSE @ \ (FLASH_START \cup FLASH_OPTSTRT)]

(***************************************************************************)
(* One run of an operation: the registers, the driver data it changes, the *)
(* return value so far, and the environment's plan for this run: one       *)
(* fault per call, either the target access that fails in the transport,   *)
(* or the busy-wait that meets a controller outcome other than Clean (and  *)
(* whether the write that clears the latched errors is then lost).         *)
(***************************************************************************)
Plans ==
  [fail : 0..MaxAccess, bad : {0}, out : {Clean}, lostclear : {FALSE}]
  \cup {p \in [fail : {0}, bad : 1..2, out : Outcomes \ {Clean},
                lostclear : BOOLEAN] :
          p.lostclear => ~p.out.stuck /\ p.out.err # {}}

Ctx(plan) ==
  [hw |-> hw, ob |-> info.option_bytes, sectors |-> bank.sectors,
   ret |-> "ERROR_OK", n |-> 0, nw |-> 0, plan |-> plan,
   log |-> <<>>, waits |-> <<>>]

Running(c) == c.ret = "ERROR_OK"

\* target_write_u32 on a controller register
target_write_u32(c, reg, v) ==
  LET k == c.n + 1
      lost == k = c.plan.fail
  IN [c EXCEPT !.n = k,
               !.ret = IF lost THEN "ERROR_TRANSPORT" ELSE @,
               !.hw = IF lost THEN @ ELSE HwWrite(@, reg, v),
               !.log = Append(@, [k |-> "w", reg |-> reg, v |-> v, ok |-> ~lost])]

\* target_read_u32 on a controller register; the value read is c.hw[reg]
target_read_u32(c, reg) ==
  LET k == c.n + 1
      lost == k = c.plan.fail
  IN [c EXCEPT !.n = k,
               !.ret = IF lost THEN "ERROR_TRANSPORT" ELSE @,
               !.log = Append(@, [k |-> "r", reg |-> reg, v |-> c.hw[reg], ok |-> ~lost])]


(***************************************************************************)
(* A call returns as soon as a step fails: each step below leaves a run    *)
(* that has already failed as it is.                                       *)
(***************************************************************************)
Wr(c, reg, v) == IF Running(c) THEN target_write_u32(c, reg, v) ELSE c
Rd(c, reg) == IF Running(c) THEN target_read_u32(c, reg) ELSE c

(***************************************************************************)
(* stm32x_wait_status_busy, stm32l4x.c:281-320.  The poll loop ends with   *)
(* the first failed read, with BSY clear, or with the timeout.             *)
(***************************************************************************)
WaitNote(status, timeout, wrote, ret) ==
  [status |-> status, timeout |-> timeout, wrote |-> wrote, ret |-> ret]

\* lines 306-319: WRPERR fails the wait; every latched error bit is written
\* back to SR, and a failure of that write is ignored
WaitReport(c, status, timeout, lost) ==
  LET retval == IF status \cap FLASH_WRPERR # {} THEN "ERROR_FAIL" ELSE "ERROR_OK"
      wrote == status \cap FLASH_ERROR
      cw == IF wrote # {}
            THEN target_write_u32(
                   [c EXCEPT !.plan.fail = IF lost THEN c.n + 1 ELSE @], "SR", wrote)
            ELSE c
  IN [cw EXCEPT !.ret = retval, !.plan = c.plan,
                !.waits = Append(@, WaitNote(status, timeout, wrote, retval))]

\* lines 289-304, after a status read that went through
WaitPolled(c, timeout) ==
  LET w == c.nw + 1
      o == IF w = c.plan.bad THEN c.plan.out ELSE Clean
      lost == w = c.plan.bad /\ c.plan.lostclear
      c2 == [c EXCEPT !.hw = HwFinish(@, o), !.nw = w]
      status == c2.hw.SR
  IN IF status \cap FLASH_BSY # {}
     THEN [c2 EXCEPT !.ret = "ERROR_FAIL",
                     !.waits = Append(@, WaitNote(status, timeout, {}, "ERROR_FAIL"))]
     ELSE WaitReport(c2, status, timeout, lost)

WaitRead(c, timeout) ==
  IF Running(c) THEN WaitPolled(c, timeout)
  ELSE [c EXCEPT !.nw = @ + 1,
                 !.waits = Append(@, WaitNote({}, timeout, {}, c.ret))]

stm32x_wait_status_busy(c, timeout) ==
  IF Running(c) THEN WaitRead(target_read_u32(c, "SR"), timeout) ELSE c

(***************************************************************************)
(* stm32x_unlock_reg, stm32l4x.c:322-357, and stm32x_unlock_option_reg,    *)
(* stm32l4x.c:359-391.                                                     *)
(***************************************************************************)
\* lines 347-354: the lock bit is read again after the keys
UnlockVerify(c, lockbit) ==
  IF Running(c) /\ c.hw.CR \cap lockbit # {}
  THEN [c EXCEPT !.ret = "ERROR_TARGET_FAILURE"] ELSE c

\* an unlock that writes the keys whatever the lock bit read
UnlockKeys_Always(c, keyreg, k1, k2, lockbit) ==
  IF ~Running(c) THEN c
  ELSE UnlockVerify(Rd(Wr(Wr(c, keyreg, k1), keyreg, k2), "CR"), lockbit)

\* lines 335-345: no key is written when the lock bit read is already clear
UnlockKeys(c, keyreg, k1, k2, lockbit) ==
  IF ~Running(c) \/ c.hw.CR \cap lockbit = {} THEN c
  ELSE UnlockVerify(Rd(Wr(Wr(c, keyreg, k1), keyreg, k2), "CR"), lockbit)

stm32x_unlock_reg(c) ==
  UnlockKeys(Rd(c, "CR"), "KEYR", KEY1, KEY2, FLASH_LOCK)

stm32x_unlock_option_reg(c) ==
  UnlockKeys(Rd(c, "CR"), "OPTKEYR", OPTKEY1, OPTKEY2, FLASH_OPTLOCK)

(***************************************************************************)
(* Option bytes, stm32l4x.c:126-143, 393-547.                              *)
(***************************************************************************)
Flag(v, bit) == IF v \cap bit # {} THEN 1 ELSE 0
WrpStart(v) == Byte(v)
WrpEnd(v) == Byte(Shr(v, 16))
\* a zone word with the start in the high half
WrpWord_Swapped(start, end) == Shl(BitsOf(start), 16) \cup BitsOf(end)

WrpWord(start, end) == Shl(BitsOf(end), 16) \cup BitsOf(start)

NoOptions ==
  [user_options |-> {}, RDP |-> 0,
   window_watchdog_selection |-> 0, independent_watchdog_standby |-> 0,
   independent_watchdog_stop |-> 0, independent_watchdog_selection |-> 0,
   wpr1a_start |-> 0, wpr1a_end |-> 0, wpr1b_start |-> 0, wpr1b_end |-> 0,
   wpr2a_start |-> 0, wpr2a_end |-> 0, wpr2b_start |-> 0, wpr2b_end |-> 0]

\* lines 404-425 on the OPTR value read
DecodeOptr(ob, d) ==
  [ob EXCEPT !.user_options = Shr(d, 8),
             !.RDP = Byte(d),
             !.window_watchdog_selection = Flag(d, WWWG_SW),
             !.independent_watchdog_standby = Flag(d, IWDG_STDBY),
             !.independent_watchdog_stop = Flag(d, IWDG_STOP),
             !.independent_watchdog_selection = Flag(d, IDWG_SW)]

StoreOptr(c) ==
  IF Running(c) THEN [c EXCEPT !.ob = DecodeOptr(@, c.hw.OPTR)] ELSE c

StoreWrp(c, reg, fs, fe) ==
  IF Running(c)
  THEN [c EXCEPT !.ob = [@ EXCEPT ![fs] = WrpStart(c.hw[reg]),
                                  ![fe] = WrpEnd(c.hw[reg])]]
  ELSE c

ReadWrp(c, reg, fs, fe) == StoreWrp(Rd(c, reg), reg, fs, fe)

ReadWrp1(c) ==
  ReadWrp(ReadWrp(c, "WRP1AR", "wpr1a_start", "wpr1a_end"),
          "WRP1BR", "wpr1b_start", "wpr1b_end")

ReadWrp2(c, part) ==
  IF part.has_dual_bank # 0
  THEN ReadWrp(ReadWrp(c, "WRP2AR", "wpr2a_start", "wpr2a_end"),
               "WRP2BR", "wpr2b_start", "wpr2b_end")
  ELSE c

stm32x_read_options(c, part) ==
  ReadWrp2(ReadWrp1(StoreOptr(Rd(c, "OPTR"))), part)

\* an OPTR word put together from RDP and the four flags only
OptrWord_FlagsOnly(ob) ==
  BitsOf(ob.RDP)
  \cup (IF ob.window_watchdog_selection # 0 THEN WWWG_SW ELSE {})
  \cup (IF ob.independent_watchdog_standby # 0 THEN IWDG_STDBY ELSE {})
  \cup (IF ob.independent_watchdog_stop # 0 THEN IWDG_STOP ELSE {})
  \cup (IF ob.independent_watchdog_selection # 0 THEN IDWG_SW ELSE {})

\* lines 477-498
OptrWord(ob) ==
  LET base == Shl(ob.user_options, 8) \cup BitsOf(ob.RDP)
      ww == IF ob.window_watchdog_selection # 0 THEN WWWG_SW ELSE {}
      sb == IF ob.independent_watchdog_standby # 0 THEN IWDG_STDBY ELSE {}
      st == IF ob.independent_watchdog_stop # 0 THEN IWDG_STOP ELSE {}
      sw == IF ob.independent_watchdog_selection # 0 THEN IDWG_SW ELSE {}
  IN (base \ (WWWG_SW \cup IWDG_STDBY \cup IWDG_STOP \cup IDWG_SW))
     \cup ww \cup sb \cup st \cup sw

\* lines 500-514
WriteWrp1(c) ==
  Wr(Wr(Wr(c, "OPTR", OptrWord(c.ob)),
        "WRP1AR", WrpWord(c.ob.wpr1a_start, c.ob.wpr1a_end)),
     "WRP1BR", WrpWord(c.ob.wpr1b_start, c.ob.wpr1b_end))

\* an option write that leaves the zones of the second bank out
WriteWrp2_Skipped(c, part) == c

\* lines 516-527
WriteWrp2(c, part) ==
  IF part.has_dual_bank # 0
  THEN Wr(Wr(c, "WRP2AR", WrpWord(c.ob.wpr2a_start, c.ob.wpr2a_end)),
          "WRP2BR", WrpWord(c.ob.wpr2b_start, c.ob.wpr2b_end))
  ELSE c

\* lines 531-546: the programming cycle, then the final CR write
OptionCycle(c) ==
  Wr(stm32x_wait_status_busy(Wr(c, "CR", FLASH_OPTSTRT), FLASH_ERASE_TIMEOUT),
     "CR", FLASH_OPTLOCK)

\* an option write that starts the programming cycle before the zones of
\* the second bank are written
stm32x_write_options_StartsEarly(c, part) ==
  WriteWrp2(
    OptionCycle(WriteWrp1(stm32x_unlock_option_reg(stm32x_unlock_reg(c)))), part)

stm32x_write_options(c, part) ==
  OptionCycle(
    WriteWrp2(WriteWrp1(stm32x_unlock_option_reg(stm32x_unlock_reg(c))), part))

(***************************************************************************)
(* stm32x_protect_check, stm32l4x.c:549-583.                               *)
(***************************************************************************)
\* a check that compares the sector number with the zones of the second bank
\* without taking first_bank_sectors off
ProtectedBy_Absolute(ob, F, i) ==
  IF i < F
  THEN IF (i >= ob.wpr1a_start /\ i <= ob.wpr1a_end)
          \/ (i >= ob.wpr1b_start /\ i <= ob.wpr1b_end) THEN 1 ELSE 0
  ELSE IF (i >= ob.wpr2a_start /\ i <= ob.wpr2a_end)
          \/ (i >= ob.wpr2b_start /\ i <= ob.wpr2b_end) THEN 1 ELSE 0

ProtectedBy(ob, F, i) ==
  IF i < F
  THEN IF (i >= ob.wpr1a_start /\ i <= ob.wpr1a_end)
          \/ (i >= ob.wpr1b_start /\ i <= ob.wpr1b_end) THEN 1 ELSE 0
  ELSE IF ((i - F) >= ob.wpr2a_start /\ (i - F) <= ob.wpr2a_end)
          \/ ((i - F) >= ob.wpr2b_start /\ (i - F) <= ob.wpr2b_end) THEN 1 ELSE 0

MarkProtection(c, part) ==
  IF ~Running(c) THEN c
  ELSE [c EXCEPT !.sectors =
          [i \in 1..Len(@) |->
             [@[i] EXCEPT !.is_protected =
                ProtectedBy(c.ob, part.first_bank_sectors, i - 1)]]]

stm32x_protect_check(c, part) ==
  MarkProtection(stm32x_read_options(c, part), part)

(***************************************************************************)
(* stm32x_erase, stm32l4x.c:585-643.  Sector i of the C array is           *)
(* sectors[i + 1] here.                                                    *)
(***************************************************************************)
\* an erase command that leaves the hole between the banks out
EraseCmd_NoHole(part, i) ==
  IF i < part.first_bank_sectors
  THEN FLASH_PER \cup FLASH_SNB(i) \cup FLASH_START
  ELSE FLASH_BKER \cup FLASH_PER \cup FLASH_SNB(i) \cup FLASH_START

EraseCmd(part, i) ==
  IF i < part.first_bank_sectors
  THEN FLASH_PER \cup FLASH_SNB(i) \cup FLASH_START
  ELSE FLASH_BKER \cup FLASH_PER \cup FLASH_SNB(i + part.hole_sectors)
       \cup FLASH_START

\* an erase that also drops the protection flag of the sector it erased
MarkErased_Unprotects(c, i) ==
  IF Running(c)
  THEN [c EXCEPT !.sectors[i + 1].is_erased = 1, !.sectors[i + 1].is_protected = 0]
  ELSE c

\* an erase that marks the whole bank erased after one sector
MarkErased_All(c, i) ==
  IF Running(c)
  THEN [c EXCEPT !.sectors = [j \in 1..Len(@) |-> [@[j] EXCEPT !.is_erased = 1]]]
  ELSE c

\* line 634
MarkErased(c, i) ==
  IF Running(c) THEN [c EXCEPT !.sectors[i + 1].is_erased = 1] ELSE c

\* a loop body that marks the sector erased whatever the busy-wait returned
EraseSector_MarksAnyway(c, part, i) ==
  [stm32x_wait_status_busy(Wr(c, "CR", EraseCmd(part, i)), FLASH_ERASE_TIMEOUT)
     EXCEPT !.sectors[i + 1].is_erased = 1]

\* lines 616-634: the loop body for sector i
EraseSector(c, part, i) ==
  MarkErased(
    stm32x_wait_status_busy(Wr(c, "CR", EraseCmd(part, i)), FLASH_ERASE_TIMEOUT), i)

RECURSIVE EraseLoop(_, _, _, _)
EraseLoop(c, part, i, last) ==
  IF i > last \/ ~Running(c) THEN c
  ELSE EraseLoop(EraseSector(c, part, i), part, i + 1, last)

stm32x_erase(c, part, isHalted, first, last) ==
  IF ~isHalted THEN [c EXCEPT !.ret = "ERROR_TARGET_NOT_HALTED"]
  ELSE Wr(EraseLoop(stm32x_unlock_reg(c), part, first, last), "CR", FLASH_LOCK)

(***************************************************************************)
(* stm32x_protect, stm32l4x.c:645-725.                                     *)
(***************************************************************************)
U8(n) == n % 256

\* lines 670-718
\* a planner that does not cut a spanning range at the end of the first bank
ProtectZones_Uncut(ob, F, set, first, last) ==
  IF first < F /\ last < F
    THEN [ob EXCEPT !.wpr1a_start = IF set THEN U8(first) ELSE 255,
                    !.wpr1a_end = IF set THEN U8(last) ELSE 0,
                    !.wpr1b_start = 255, !.wpr1b_end = 0]
  ELSE IF first >= F
    THEN [ob EXCEPT !.wpr2a_start = IF set THEN U8(first - F) ELSE 255,
                    !.wpr2a_end = IF set THEN U8(last - F) ELSE 0,
                    !.wpr2b_start = 255, !.wpr2b_end = 0]
  ELSE [ob EXCEPT !.wpr1a_start = IF set THEN U8(first) ELSE 255,
                  !.wpr1a_end = IF set THEN U8(last) ELSE 0,
                  !.wpr2a_start = IF set THEN 0 ELSE 255,
                  !.wpr2a_end = IF set THEN U8(last - F) ELSE 0,
                  !.wpr1b_start = 255, !.wpr1b_end = 0,
                  !.wpr2b_start = 255, !.wpr2b_end = 0]

ProtectZones(ob, F, set, first, last) ==
  IF first < F /\ last < F
    THEN [ob EXCEPT !.wpr1a_start = IF set THEN U8(first) ELSE 255,
                    !.wpr1a_end = IF set THEN U8(last) ELSE 0,
                    !.wpr1b_start = 255, !.wpr1b_end = 0]
  ELSE IF first >= F
    THEN [ob EXCEPT !.wpr2a_start = IF set THEN U8(first - F) ELSE 255,
                    !.wpr2a_end = IF set THEN U8(last - F) ELSE 0,
                    !.wpr2b_start = 255, !.wpr2b_end = 0]
  ELSE IF first < F /\ last >= F
    THEN [ob EXCEPT !.wpr1a_start = IF set THEN U8(first) ELSE 255,
                    !.wpr1a_end = IF set THEN U8(F - 1) ELSE 0,
                    !.wpr2a_start = IF set THEN 0 ELSE 255,
                    !.wpr2a_end = IF set THEN U8(last - F) ELSE 0,
                    !.wpr1b_start = 255, !.wpr1b_end = 0,
                    !.wpr2b_start = 255, !.wpr2b_end = 0]
  ELSE ob

\* lines 663-718: the sector flags, then the zones in the option cache
PlanProtection(c, part, set, first, last) ==
  IF ~Running(c) THEN c
  ELSE [c EXCEPT
          !.sectors = [i \in 1..Len(@) |->
                         IF i - 1 >= first /\ i - 1 <= last
                         THEN [@[i] EXCEPT !.is_protected = IF set THEN 1 ELSE 0]
                         ELSE @[i]],
          !.ob = ProtectZones(@, part.first_bank_sectors, set, first, last)]

stm32x_protect(c, part, isHalted, set, first, last) ==
  IF ~isHalted THEN [c EXCEPT !.ret = "ERROR_TARGET_NOT_HALTED"]
  ELSE stm32x_write_options(
         PlanProtection(stm32x_read_options(c, part), part, set, first, last), part)

(***************************************************************************)
(* stm32x_mass_erase, stm32l4x.c:1028-1076.                                *)
(***************************************************************************)
\* lines 1046-1061: reg32 is the CR value just read
\* a mass erase that selects the second bank on every part
MassEraseStart_BothBanks(c, part) ==
  LET reg32 == c.hw.CR \cup FLASH_MER2
  IN Wr(Wr(c, "CR", reg32 \cup FLASH_MER1),
        "CR", reg32 \cup FLASH_MER1 \cup FLASH_START)

MassEraseStart(c, part) ==
  LET reg32 == IF part.has_dual_bank # 0 THEN c.hw.CR \cup FLASH_MER2 ELSE c.hw.CR
  IN Wr(Wr(c, "CR", reg32 \cup FLASH_MER1),
        "CR", reg32 \cup FLASH_MER1 \cup FLASH_START)

\* lines 1067-1073
MassEraseLock(c) == Wr(c, "CR", c.hw.CR \cup FLASH_LOCK)

stm32x_mass_erase(c, part, isHalted) ==
  IF ~isHalted THEN [c EXCEPT !.ret = "ERROR_TARGET_NOT_HALTED"]
  ELSE MassEraseLock(
         Rd(stm32x_wait_status_busy(
              MassEraseStart(
                Rd(stm32x_wait_status_busy(stm32x_unlock_reg(c),
                                           FLASH_ERASE_TIMEOUT \div 10), "CR"),
                part),
              FLASH_ERASE_TIMEOUT), "CR"))

(***************************************************************************)
(* stm32x_flash_bank_command, stm32l4x.c:259-273.  driver_priv comes from  *)
(* malloc: only probed and user_bank_size are set, so part_info starts     *)
(* with whatever the heap block held (0 is NULL, n > 0 is &parts[n]).      *)
(***************************************************************************)
stm32x_flash_bank_command(size, heap_part_info) ==
  [bank |-> [size |-> size, base |-> 0, num_sectors |-> 0,
             sectors_ptr |-> "NULL", sectors |-> <<>>],
   info |-> [probed |-> 0, idcode |-> 0, user_bank_size |-> size,
             option_bytes |-> NoOptions, part_info |-> heap_part_info]]

(***************************************************************************)
(* stm32x_probe, stm32l4x.c:884-975.  in: what the target and the heap     *)
(* answer during this probe.                                               *)
(*   id        the IDCODE read, or -1 when the read fails                  *)
(*   fsize     the flash size halfword, or -1 when the read fails          *)
(*   options   the OPTR value the probe ends up testing: the register, or  *)
(*             the uninitialised local when the (unchecked) read failed    *)
(*   malloc_ok whether malloc returns a block                              *)
(***************************************************************************)
U16(n) == n % 65536

MatchPart(tbl, cur, id) ==
  LET hits == {n \in 1..Len(tbl) : tbl[n].id = id % 4096}
  IN IF hits = {} THEN cur ELSE CHOOSE n \in hits : \A m \in hits : m <= n

ProbeGeometry(p, id, flash_size_in_kb, options) ==
  IF p.has_dual_bank = 0 THEN p
  ELSE IF id % 4096 = 1136 /\ options \cap DBANK = {}
    THEN [p EXCEPT !.page_size = 8192]
  ELSE IF options \cap DUALBANK # {} /\ flash_size_in_kb < p.max_flash_size_kb
    THEN LET fbs == U16(((flash_size_in_kb * 1024) \div p.page_size) \div 2)
         IN [p EXCEPT !.first_bank_sectors = fbs,
                      !.hole_sectors =
                        U16((((p.max_flash_size_kb * 1024) \div p.page_size) \div 2)
                            - fbs + 65536)]
  ELSE p

SectorTable(num_sectors, page_size) ==
  [i \in 1..num_sectors |->
     [offset |-> (i - 1) * page_size, size |-> page_size,
      is_erased |-> -1, is_protected |-> 1]]

\* a probe that raises probed before it knows the array was allocated
AllocSectors_ProbedFirst(r, num_sectors, page_size, malloc_ok) ==
  IF ~malloc_ok
  THEN [r EXCEPT !.bank.sectors_ptr = "NULL", !.bank.sectors = <<>>,
                 !.info.probed = 1, !.ret = "ERROR_FAIL"]
  ELSE [r EXCEPT !.bank.sectors_ptr = "heap",
                 !.bank.sectors = SectorTable(num_sectors, page_size),
                 !.info.probed = 1, !.ret = "ERROR_OK"]

\* lines 952-974 with the sector array freed and allocated anew: probed is set
\* only once the array is filled
AllocSectors(r, num_sectors, page_size, malloc_ok) ==
  IF ~malloc_ok
  THEN [r EXCEPT !.bank.sectors_ptr = "NULL", !.bank.sectors = <<>>,
                 !.ret = "ERROR_FAIL"]
  ELSE [r EXCEPT !.bank.sectors_ptr = "heap",
                 !.bank.sectors = SectorTable(num_sectors, page_size),
                 !.info.probed = 1, !.ret = "ERROR_OK"]

\* the target reads of one probe, in order: the id code (line 896), the flash
\* size halfword (line 917) and, on a dual-bank part, OPTR (line 926)
ProbeReads(tbl, n, in) ==
  <<[k |-> "r", reg |-> "DBGMCU_IDCODE"]>>
    \o (IF in.id = -1 \/ n = 0 THEN <<>>
        ELSE <<[k |-> "r", reg |-> "FSIZE"]>>
               \o (IF tbl[n].has_dual_bank = 0 THEN <<>>
                   ELSE <<[k |-> "r", reg |-> "FLASH_OPTR"]>>))

stm32x_probe(tbl, b, inf, in) ==
  LET inf0 == [inf EXCEPT !.probed = 0]
      inf1 == [inf0 EXCEPT !.idcode = in.id,
                           !.part_info = MatchPart(tbl, inf.part_info, in.id)]
      n == inf1.part_info
      kb0 == IF in.fsize = -1 \/ in.fsize = 0 \/ in.fsize > tbl[n].max_flash_size_kb
             THEN tbl[n].max_flash_size_kb ELSE in.fsize
      p == ProbeGeometry(tbl[n], in.id, kb0, in.options)
      tbl1 == [tbl EXCEPT ![n] = p]
      kb == IF inf.user_bank_size # 0 THEN U16(inf.user_bank_size \div 1024) ELSE kb0
      num_sectors == (kb * 1024) \div p.page_size
      b1 == [b EXCEPT !.size = kb * 1024, !.base = FLASH_BANK0_ADDRESS,
                      !.num_sectors = num_sectors]
  IN IF in.id = -1
       THEN [parts |-> tbl, bank |-> b, info |-> inf0, ret |-> "ERROR_TRANSPORT",
             log |-> ProbeReads(tbl, n, in)]
     ELSE IF n = 0
       THEN [parts |-> tbl, bank |-> b, info |-> inf1, ret |-> "ERROR_FAIL",
             log |-> ProbeReads(tbl, n, in)]
     ELSE AllocSectors([parts |-> tbl1, bank |-> b1, info |-> inf1, ret |-> "ERROR_OK",
                        log |-> ProbeReads(tbl, n, in)],
                       num_sectors, p.page_size, in.malloc_ok)

(***************************************************************************)
(* stm32x_auto_probe, stm32l4x.c:977-985.                                  *)
(***************************************************************************)
\* an auto_probe that probes again whatever the probed flag says
stm32x_auto_probe_Always(tbl, b, inf, in) == stm32x_probe(tbl, b, inf, in)

stm32x_auto_probe(tbl, b, inf, in) ==
  IF inf.probed # 0
  THEN [parts |-> tbl, bank |-> b, info |-> inf, ret |-> "ERROR_OK", log |-> <<>>]
  ELSE stm32x_probe(tbl, b, inf, in)


(***************************************************************************)
(* The stm32l4x commands, stm32l4x.c:1078-1343.  Each handler is given the *)
(* bank by flash_command_get_bank; the argument of a watchdog command has  *)
(* been parsed to enable.                                                  *)
(***************************************************************************)
\* an assignment to a field of the cached option bytes, on the path that
\* reaches it
SetOption(c, field, v) ==
  IF Running(c) THEN [c EXCEPT !.ob[field] = v] ELSE c

\* lines 1099-1114, 1138-1156: a failure of the option read or of the option
\* write is printed, and the handler returns ERROR_OK
Printed(c) == [c EXCEPT !.ret = "ERROR_OK"]

\* lines 1078-1115
stm32x_handle_lock_command(c, part, isHalted) ==
  IF ~isHalted THEN [c EXCEPT !.ret = "ERROR_TARGET_NOT_HALTED"]
  ELSE Printed(stm32x_write_options(
                 SetOption(stm32x_read_options(c, part), "RDP", 0), part))

\* lines 1117-1157
stm32x_handle_unlock_command(c, part, isHalted) ==
  IF ~isHalted THEN [c EXCEPT !.ret = "ERROR_TARGET_NOT_HALTED"]
  ELSE Printed(stm32x_write_options(
                 SetOption(stm32x_read_options(c, part), "RDP", 170), part))

\* lines 1172-1176
MarkAllErased(c) ==
  IF Running(c)
  THEN [c EXCEPT !.sectors = [j \in 1..Len(@) |-> [@[j] EXCEPT !.is_erased = 1]]]
  ELSE c

\* lines 1159-1183
stm32x_handle_mass_erase_command(c, part, isHalted) ==
  MarkAllErased(stm32x_mass_erase(c, part, isHalted))

\* lines 1198-1222 and the same lines of the three other watchdog handlers:
\* both unlocks, the option read, the flag, the option write
OptionCommand(c, part, field, enable) ==
  stm32x_write_options(
    SetOption(
      stm32x_read_options(stm32x_unlock_option_reg(stm32x_unlock_reg(c)), part),
      field, IF enable THEN 1 ELSE 0),
    part)

\* lines 1185-1223
stm32x_window_watchdog_selection(c, part, enable) ==
  OptionCommand(c, part, "window_watchdog_selection", enable)

\* lines 1225-1263
stm32x_watchdog_standby(c, part, enable) ==
  OptionCommand(c, part, "independent_watchdog_standby", enable)

\* lines 1265-1303
stm32x_watchdog_stop(c, part, enable) ==
  OptionCommand(c, part, "independent_watchdog_stop", enable)

\* lines 1305-1343
stm32x_watchdog_selection(c, part, enable) ==
  OptionCommand(c, part, "independent_watchdog_selection", enable)


(***************************************************************************)
(* The controller specification: a probed bank, and the driver operations  *)
(* that work on the controller's registers, one call at a time.            *)
(***************************************************************************)
\* op: the operation that has just returned, with what it was called with,
\* what the target answered (in, for a probe) and what it did on the target
NoInput == [id |-> 0, fsize |-> 0, options |-> {}, malloc_ok |-> TRUE]

NoOp == [name |-> "none", ret |-> "ERROR_OK", log |-> <<>>, waits |-> <<>>,
         set |-> FALSE, first |-> 0, last |-> 0,
         offset |-> 0, count |-> 0, programmed |-> <<>>, in |-> NoInput]

NoStream == [phase |-> "idle"]

\* IDCODE values: revision code in the top half, part id in the low 12 bits
IdCode(rev, dev) == rev * 65536 + dev

\* the probes that set up the banks of the controller specification: a
\* single-bank part under a user size of 8 KB, and a dual-bank part of 8 KB
SingleBankProbe ==
  [size |-> 8192, optr |-> BitsOf(170),
   in |-> [id |-> IdCode(4097, 1077), fsize |-> 256, options |-> {},
           malloc_ok |-> TRUE]]

DualBankProbe ==
  [size |-> 0, optr |-> BitsOf(170) \cup DUALBANK,
   in |-> [id |-> IdCode(4103, 1045), fsize |-> 8,
           options |-> BitsOf(170) \cup DUALBANK, malloc_ok |-> TRUE]]

CtlProbes == {SingleBankProbe, DualBankProbe}

InitWith(cfg) ==
  LET b0 == stm32x_flash_bank_command(cfg.size, 0)
      r == stm32x_probe(stm32l4x_parts, b0.bank, b0.info, cfg.in)
  IN /\ halted = TRUE
     /\ hw = [HwReset EXCEPT !.OPTR = cfg.optr]
     /\ parts = r.parts
     /\ bank = r.bank
     /\ info = r.info
     /\ areas = {}
     /\ op = NoOp
     /\ nops = 0
     /\ stream = NoStream

Init == \E cfg \in CtlProbes : InitWith(cfg)

Part == parts[info.part_info]

Idle == op.name = "none" /\ stream.phase = "idle"

Ranges ==
  {r \in (0..(bank.num_sectors - 1)) \X (0..(bank.num_sectors - 1)) :
     r[1] <= r[2] /\ r[2] - r[1] <= MaxRange}

\* the operation's effects on the controller, the option cache and the sectors
Commit(c, name, set, first, last) ==
  /\ hw' = c.hw
  /\ info' = [info EXCEPT !.option_bytes = c.ob]
  /\ bank' = [bank EXCEPT !.sectors = c.sectors]
  /\ op' = [NoOp EXCEPT !.name = name, !.ret = c.ret, !.log = c.log,
                         !.waits = c.waits, !.set = set,
                         !.first = first, !.last = last]
  /\ nops' = nops + 1
  /\ UNCHANGED <<halted, parts, areas, stream>>

Erase ==
  /\ Idle /\ nops < MaxOps
  /\ \E plan \in Plans, r \in Ranges :
       Commit(stm32x_erase(Ctx(plan), Part, halted, r[1], r[2]),
              "erase", FALSE, r[1], r[2])

Protect ==
  /\ Idle /\ nops < MaxOps
  /\ \E plan \in Plans, r \in Ranges, set \in BOOLEAN :
       Commit(stm32x_protect(Ctx(plan), Part, halted, set, r[1], r[2]),
              "protect", set, r[1], r[2])

ProtectCheck ==
  /\ Idle /\ nops < MaxOps
  /\ \E plan \in Plans :
       Commit(stm32x_protect_check(Ctx(plan), Part), "protect_check", FALSE, 0, 0)

MassErase ==
  /\ Idle /\ nops < MaxOps
  /\ \E plan \in Plans :
       Commit(stm32x_mass_erase(Ctx(plan), Part, halted), "mass_erase", FALSE, 0, 0)

\* the call has returned to the host framework, which issues the next one
Return ==
  /\ op.name # "none" /\ stream.phase = "idle"
  /\ op' = NoOp
  /\ UNCHANGED <<halted, hw, parts, bank, info, areas, nops, stream>>

\* the target is resumed or halted between two calls
TargetState ==
  /\ Idle /\ nops < MaxOps
  /\ halted' = ~halted
  /\ UNCHANGED <<hw, parts, bank, info, areas, op, nops, stream>>

Next == Erase \/ Protect \/ ProtectCheck \/ MassErase \/ Return \/ TargetState

Spec == Init /\ [][Next]_vars

(***************************************************************************)
(* The probe specification: a bank as the flash bank command leaves it,    *)
(* then probe and auto_probe calls against whatever the target and the     *)
(* heap answer.                                                            *)
(***************************************************************************)
MaxProbes == 2

\* the size argument of the flash bank command, in bytes (0: take the probed one)
BankSizes == {0, 3072, 16384}

\* what the malloc'ed block holds where part_info lies
HeapPartInfo == {0, 2}

ProbeInputs ==
  [id : {-1, IdCode(4096, 1040), IdCode(4103, 1045), IdCode(4097, 1077),
         IdCode(4096, 1136)},
   fsize : {-1, 0, 64, 256, 4096},
   options : {{}, DUALBANK, DBANK \cup DUALBANK},
   malloc_ok : BOOLEAN]

InitProbe ==
  \E size \in BankSizes, heap \in HeapPartInfo :
    LET b0 == stm32x_flash_bank_command(size, heap)
    IN /\ halted = TRUE
       /\ hw = HwReset
       /\ parts = stm32l4x_parts
       /\ bank = b0.bank
       /\ info = b0.info
       /\ areas = {}
       /\ op = NoOp
       /\ nops = 0
       /\ stream = NoStream

Probed(r, name, in) ==
  /\ parts' = r.parts
  /\ bank' = r.bank
  /\ info' = r.info
  /\ op' = [NoOp EXCEPT !.name = name, !.ret = r.ret, !.log = r.log, !.in = in]
  /\ nops' = nops + 1
  /\ UNCHANGED <<halted, hw, areas, stream>>

Probe ==
  /\ nops < MaxProbes
  /\ \E in \in ProbeInputs : Probed(stm32x_probe(parts, bank, info, in), "probe", in)

AutoProbe ==
  /\ nops < MaxProbes
  /\ \E in \in ProbeInputs :
       Probed(stm32x_auto_probe(parts, bank, info, in), "auto_probe", in)

NextProbe == Probe \/ AutoProbe

SpecProbe == InitProbe /\ [][NextProbe]_vars

(***************************************************************************)
(* The streaming write: stm32x_write, stm32l4x.c:829-872, and              *)
(* stm32x_write_block, stm32l4x.c:727-827.  The host side runs             *)
(* target_run_flash_async_algorithm while the target runs the stub         *)
(* stm32x_flash_write_code; they share the ring working area: the write    *)
(* pointer at r0, the read pointer at r0 + 4, the data from r0 + 8 to r1.  *)
(***************************************************************************)
MaxWrites == 2

\* byte offsets and byte counts of the write calls
WriteOffsets == {0, 4}
WriteCounts == {8, 12, 528}

\* bytes of working area the target configuration offers
WorkAreaPools == {0, 100, 600}

\* sizeof(stm32x_flash_write_code)
StubCodeSize == 82

\* where the target's working areas begin
WorkAreaBase == 536870912

Align4(n) == ((n + 3) \div 4) * 4

RECURSIVE AreaBytes(_)
AreaBytes(as) ==
  IF as = {} THEN 0
  ELSE LET a == CHOOSE x \in as : TRUE
       IN Align4(a.size) + AreaBytes(as \ {a})

\* a ring loop that goes on halving down to 256 bytes
RECURSIVE AllocRing_To256(_, _)
AllocRing_To256(avail, buffer_size) ==
  IF buffer_size <= avail THEN buffer_size
  ELSE IF buffer_size \div 2 < 256 THEN 0
  ELSE AllocRing_To256(avail, buffer_size \div 2)

\* lines 764-773: the size the ring gets, 0 when the loop gives up
RECURSIVE AllocRing(_, _)
AllocRing(avail, buffer_size) ==
  IF buffer_size <= avail THEN buffer_size
  ELSE IF buffer_size \div 2 <= 256 THEN 0
  ELSE AllocRing(avail, buffer_size \div 2)

\* lines 764-773: the sizes the loop asks for, in order, each granted or refused
RECURSIVE RingRequests(_, _)
RingRequests(avail, buffer_size) ==
  LET e == [k |-> "a", reg |-> "ring", v |-> BitsOf(buffer_size),
            ok |-> buffer_size <= avail]
  IN IF buffer_size <= avail \/ buffer_size \div 2 <= 256 THEN <<e>>
     ELSE <<e>> \o RingRequests(avail, buffer_size \div 2)

\* lines 751-773: the stub's code area, its upload, and the ring
AllocAreas(pool, as, call, upload_ok) ==
  LET code == [kind |-> "code", size |-> StubCodeSize, call |-> call]
      withCode == as \cup {code}
      size == AllocRing(pool - AreaBytes(withCode), 16384)
      requests == RingRequests(pool - AreaBytes(withCode), 16384)
      source == [kind |-> "ring", size |-> size, call |-> call]
  IN IF pool - AreaBytes(as) < Align4(StubCodeSize)
       THEN [ret |-> "ERROR_TARGET_RESOURCE_NOT_AVAILABLE", areas |-> as,
             address |-> 0, size |-> 0, requests |-> <<>>]
     ELSE IF ~upload_ok
       THEN [ret |-> "ERROR_TRANSPORT", areas |-> withCode,
             address |-> 0, size |-> 0, requests |-> <<>>]
     ELSE IF size = 0
       THEN [ret |-> "ERROR_TARGET_RESOURCE_NOT_AVAILABLE", areas |-> as,
             address |-> 0, size |-> 0, requests |-> requests]
     ELSE [ret |-> "ERROR_OK", areas |-> withCode \cup {source},
           address |-> WorkAreaBase + AreaBytes(withCode), size |-> size,
           requests |-> requests]

\* lines 845-847 and 862: the number of 64-bit words handed to write_block
BlockCount(count) ==
  (IF count % 8 # 0 THEN ((count + 7) \div 8) * 8 ELSE count) \div 8

\* lines 801-815: the error word the stub left in r0
BlockError(c, retval, r0) ==
  LET error == BitsOf(r0) \cap FLASH_ERROR
  IN IF retval = "ERROR_FLASH_OPERATION_FAILED" /\ error # {}
     THEN [target_write_u32(c, "SR", error) EXCEPT !.ret = "ERROR_FAIL"]
     ELSE [c EXCEPT !.ret = retval]

\* lines 864-871: what stm32x_write makes of write_block's return value
WriteEpilogue(c) ==
  IF c.ret # "ERROR_OK" /\ c.ret # "ERROR_TARGET_RESOURCE_NOT_AVAILABLE" THEN c
  ELSE target_write_u32([c EXCEPT !.ret = "ERROR_OK"], "CR", FLASH_LOCK)

\* lines 835-843
\* a write that looks at the offset before it looks at the target state
WriteCheck_AlignmentFirst(isHalted, offset) ==
  IF offset % 8 # 0 THEN "ERROR_FLASH_DST_BREAKS_ALIGNMENT"
  ELSE IF ~isHalted THEN "ERROR_TARGET_NOT_HALTED"
  ELSE "ERROR_OK"

WriteCheck(isHalted, offset) ==
  IF ~isHalted THEN "ERROR_TARGET_NOT_HALTED"
  ELSE IF offset % 8 # 0 THEN "ERROR_FLASH_DST_BREAKS_ALIGNMENT"
  ELSE "ERROR_OK"

(***************************************************************************)
(* The stub, by the offsets of its instructions.                           *)
(*   00 ldr r7,[r0]; cmp r7,#0; beq 4e     wp, 0 is the host's abort       *)
(*   06 ldr r5,[r0,#4]; subs r6,r7,r5; bmi 3e                              *)
(*   0c cmp r6,#8; bcc 00                  wait for 8 bytes                *)
(*   10 movs r6,#1; str r6,[r4,#0x14]      CR = PG                         *)
(*   14 ldmia r5!,{r6}; stmia r2!,{r6}; dsb    low half                    *)
(*   1c ldmia r5!,{r6}; stmia r2!,{r6}; dsb    high half                   *)
(*   24 ldr r6,[r4,#0x10]; lsrs r6,#17; bcs 24     poll BSY                *)
(*   2a ldr r6,[r4,#0x10]; uxtb r6,r6; cmp r6,#0; bne 4a                   *)
(*   32 cmp r5,r1; bcs 44                                                  *)
(*   36 str r5,[r0,#4]; subs r3,#1; beq 4e; b 00                           *)
(*   3e add r6,r1; subs r6,r6,r0; b 0c                                     *)
(*   44 mov r5,r0; adds r5,#8; b 36                                        *)
(*   4a movs r1,#0; str r1,[r0,#4]         rp = 0 tells the host           *)
(*   4e mov r0,r6; bkpt                                                    *)
(***************************************************************************)
\* a stub that does not wait for the producer
StubAvailable_NoWait(r7, r5, r1, r0) == r1 - r0

\* 06-0b, 3e-43: the bytes the stub takes to be ready in the ring
StubAvailable(r7, r5, r1, r0) ==
  IF r7 - r5 < 0 THEN (r7 - r5) + r1 - r0 ELSE r7 - r5

\* a stub that publishes a read pointer one slot ahead of what it has read
StubPublished_Ahead(r5, r1, r0) ==
  IF r5 + 8 >= r1 THEN r0 + 8 ELSE r5 + 8

\* a stub that wraps only once it is past the end of the ring
StubPublished_PastEnd(r5, r1, r0) ==
  IF r5 > r1 THEN r0 + 8 ELSE r5

\* 32-37, 44-49: the read pointer the stub stores once it has read a word
StubPublished(r5, r1, r0) ==
  IF r5 >= r1 THEN r0 + 8 ELSE r5

\* the payload's 32-bit halves, by word k >= 1 and half h; 0 is no payload
Half(k, h) == 2 * k + h

\* the ring's 32-bit cells, by address
Cell(st, a) == (a - st.r0 - 8) \div 4
Cells(st) == {st.r0 + 8 + 4 * i : i \in DOMAIN st.ring}

\* ring addresses from a up to b, going round
Between(st, a, b) ==
  IF a <= b THEN {x \in Cells(st) : a <= x /\ x < b}
  ELSE {x \in Cells(st) : x >= a \/ x < b}

\* a flash word write with both halves in: programming starts under CR.PG,
\* else the sequence error latches
HwProgram(h) ==
  IF h.CR \cap FLASH_PG # {} /\ h.CR \cap FLASH_LOCK = {}
  THEN [h EXCEPT !.SR = @ \cup FLASH_BSY]
  ELSE [h EXCEPT !.SR = @ \cup FLASH_PGSERR]

\* While the stub polls, BSY clears in the end; besides the errors of the word
\* being programmed, SR may show OPTVERR, which the controller raises for its
\* option bytes and which says nothing about the word.
StreamErrors == HwErrors \cup {FLASH_OPTVERR}
StreamOutcomes == [stuck : {FALSE}, err : StreamErrors]

(***************************************************************************)
(* target_run_flash_async_algorithm: the host keeps one block free in the  *)
(* ring, so that wp = rp means empty; it writes the data, then the new wp. *)
(***************************************************************************)
RunnerSpace(rp, wp, fifo_start, fifo_end, block) ==
  IF rp > wp THEN rp - wp - block
  ELSE IF rp > fifo_start THEN fifo_end - wp
  ELSE fifo_end - wp - block

RunnerChunk(rp, wp, st, count) ==
  LET space == RunnerSpace(rp, wp, st.r0 + 8, st.r1, 8)
  IN IF space > count * 8 THEN count * 8 ELSE space

WritePlans ==
  {p \in [fail : 0..6, upload_ok : BOOLEAN, runner_fail : BOOLEAN] :
     /\ p.fail # 0 => p.upload_ok /\ ~p.runner_fail
     /\ ~p.upload_ok => ~p.runner_fail}

WriteCtx(fail) ==
  Ctx([fail |-> fail, bad |-> 0, out |-> Clean, lostclear |-> FALSE])

(***************************************************************************)
(* The streaming specification: write calls on a probed single-bank part,  *)
(* the stub and the host runner taking their steps in any order.           *)
(***************************************************************************)
InitStream == InitWith(SingleBankProbe)

Streaming == stream.phase = "running"

WriteReturns(c, as, offset, count, programmed) ==
  /\ hw' = c.hw
  /\ areas' = as
  /\ op' = [NoOp EXCEPT !.name = "write", !.ret = c.ret, !.log = c.log,
                        !.offset = offset, !.count = count,
                        !.programmed = programmed]
  /\ stream' = NoStream

\* lines 775-799, up to the start of the stub: both pointers at the first cell
WriteStarts(c, al, offset, count, plan) ==
  /\ hw' = c.hw
  /\ areas' = al.areas
  /\ op' = op
  /\ stream' =
       [phase |-> "running", offset |-> offset, count |-> count, call |-> nops,
        c |-> c, runner_fail |-> plan.runner_fail,
        r0 |-> al.address, r1 |-> al.address + al.size,
        wp_cell |-> al.address + 8, rp_cell |-> al.address + 8,
        ring |-> [i \in 0..(((al.size - 8) \div 4) - 1) |-> 0],
        stub |-> [pc |-> "wait", r2 |-> bank.base + offset,
                  r3 |-> BlockCount(count), r5 |-> 0, r6 |-> 0, r0out |-> 0],
        lo |-> 0, hi |-> 0,
        run |-> [pc |-> "poll", wp |-> al.address + 8, count |-> BlockCount(count),
                 next |-> 1, thisrun |-> 0, retval |-> "ERROR_OK"],
        programmed |-> <<>>, unread |-> {}, overrun |-> FALSE, early |-> FALSE]

\* stm32x_write up to the start of the stub, or to its return when it ends before
WriteCallWith(offset, count, pool, plan) ==
  LET check == WriteCheck(halted, offset)
      c0 == WriteCtx(plan.fail)
      c1 == stm32x_unlock_reg(c0)
      al == AllocAreas(pool, areas, nops, plan.upload_ok)
  IN IF check # "ERROR_OK"
       THEN WriteReturns([c0 EXCEPT !.ret = check], areas, offset, count, <<>>)
     ELSE IF ~Running(c1)
       THEN WriteReturns(c1, areas, offset, count, <<>>)
     ELSE IF al.ret # "ERROR_OK"
       THEN WriteReturns(WriteEpilogue([c1 EXCEPT !.ret = al.ret,
                                                  !.log = @ \o al.requests]),
                         al.areas, offset, count, <<>>)
     ELSE WriteStarts([c1 EXCEPT !.log = @ \o al.requests], al, offset, count, plan)

WriteCall ==
  /\ Idle /\ nops < MaxWrites
  /\ \E offset \in WriteOffsets, count \in WriteCounts,
        pool \in WorkAreaPools, plan \in WritePlans :
       WriteCallWith(offset, count, pool, plan)
  /\ nops' = nops + 1
  /\ UNCHANGED <<halted, parts, bank, info>>

StreamStep == UNCHANGED <<halted, parts, bank, info, areas, op, nops>>

\* stub 00-0f: one look at the write pointer
StubPoll ==
  /\ Streaming /\ stream.stub.pc = "wait"
  /\ LET st == stream.stub
         r7 == stream.wp_cell
         r5 == stream.rp_cell
         r6 == StubAvailable(r7, r5, stream.r1, stream.r0)
     IN stream' = [stream EXCEPT !.stub =
          IF r7 = 0 THEN [st EXCEPT !.pc = "halted", !.r0out = st.r6]
          ELSE IF r6 < 8 THEN [st EXCEPT !.r5 = r5, !.r6 = r6]
          ELSE [st EXCEPT !.r5 = r5, !.r6 = r6, !.pc = "lo"]]
  /\ hw' = hw
  /\ StreamStep

\* stub 10-1b: CR = PG, then the low half goes from the ring to the flash
StubCopyLo ==
  /\ Streaming /\ stream.stub.pc = "lo"
  /\ LET st == stream.stub
         data == stream.ring[Cell(stream, st.r5)]
     IN stream' = [stream EXCEPT
          !.stub = [st EXCEPT !.pc = "hi", !.r6 = data,
                              !.r5 = @ + 4, !.r2 = @ + 4],
          !.lo = data,
          !.unread = @ \ {st.r5}]
  /\ hw' = HwWrite(hw, "CR", FLASH_PG)
  /\ StreamStep

\* stub 1c-23: the high half, which starts the programming of the word
StubCopyHi ==
  /\ Streaming /\ stream.stub.pc = "hi"
  /\ LET st == stream.stub
         data == stream.ring[Cell(stream, st.r5)]
     IN stream' = [stream EXCEPT
          !.stub = [st EXCEPT !.pc = "busy", !.r6 = data,
                              !.r5 = @ + 4, !.r2 = @ + 4],
          !.hi = data,
          !.unread = @ \ {st.r5}]
  /\ hw' = HwProgram(hw)
  /\ StreamStep

\* stub 24-31 and 4a-4f: BSY polled off, then the low byte of SR decides
StubBusy ==
  /\ Streaming /\ stream.stub.pc = "busy"
  /\ \E o \in StreamOutcomes :
       LET st == stream.stub
           h == HwFinish(hw, o)
           r6 == Byte(h.SR)
           done == hw.SR \cap FLASH_BSY # {} /\ o.err \subseteq FLASH_OPTVERR
           word == [addr |-> st.r2 - 8, lo |-> stream.lo, hi |-> stream.hi]
       IN /\ hw' = h
          /\ stream' = [stream EXCEPT
               !.programmed = IF done THEN Append(@, word) ELSE @,
               !.rp_cell = IF r6 # 0 THEN 0 ELSE @,
               !.stub = IF r6 # 0
                        THEN [st EXCEPT !.pc = "halted", !.r6 = r6, !.r0out = r6]
                        ELSE [st EXCEPT !.pc = "publish", !.r6 = r6]]
  /\ StreamStep

\* stub 32-3d and 44-49: the read pointer published, the word counted
\* (r3 >= 1 here: write_block is handed at least one word)
StubPublish ==
  /\ Streaming /\ stream.stub.pc = "publish"
  /\ LET st == stream.stub
         r5 == StubPublished(st.r5, stream.r1, stream.r0)
         released == Between(stream, stream.rp_cell, r5)
     IN stream' = [stream EXCEPT
          !.rp_cell = r5,
          !.early = @ \/ released \cap stream.unread # {},
          !.stub = IF st.r3 - 1 = 0
                   THEN [st EXCEPT !.pc = "halted", !.r5 = r5, !.r3 = 0,
                                   !.r0out = st.r6]
                   ELSE [st EXCEPT !.pc = "wait", !.r5 = r5, !.r3 = @ - 1]]
  /\ hw' = hw
  /\ StreamStep

\* the runner reads the read pointer and sizes the next chunk; a failed read
\* and a read of 0 end the loop, and the runner writes wp = 0 to stop the stub
RunnerPoll ==
  /\ Streaming /\ stream.run.pc = "poll"
  /\ \E ok \in {TRUE, ~stream.runner_fail} :
       LET run == stream.run
           rp == stream.rp_cell
           chunk == RunnerChunk(rp, run.wp, stream, run.count)
       IN IF run.count = 0
            THEN stream' = [stream EXCEPT !.run.pc = "wait"]
          ELSE IF ~ok
            THEN stream' = [stream EXCEPT !.run.pc = "wait",
                                          !.run.retval = "ERROR_TRANSPORT",
                                          !.wp_cell = 0]
          ELSE IF rp = 0
            THEN stream' = [stream EXCEPT
                              !.run.pc = "wait",
                              !.run.retval = "ERROR_FLASH_OPERATION_FAILED",
                              !.wp_cell = 0]
          ELSE chunk > 0
               /\ stream' = [stream EXCEPT !.run.pc = "data", !.run.thisrun = chunk]
  /\ hw' = hw
  /\ StreamStep

\* the runner writes the chunk into the ring at wp
RunnerData ==
  /\ Streaming /\ stream.run.pc = "data"
  /\ LET run == stream.run
         first == Cell(stream, run.wp)
         n == run.thisrun \div 4
         written == {run.wp + 4 * j : j \in 0..(n - 1)}
     IN stream' = [stream EXCEPT
          !.ring = [i \in DOMAIN @ |->
                      IF i >= first /\ i < first + n
                      THEN Half(run.next + ((i - first) \div 2), (i - first) % 2)
                      ELSE @[i]],
          !.overrun = @ \/ written \cap stream.unread # {},
          !.unread = @ \cup written,
          !.run.pc = "wp"]
  /\ hw' = hw
  /\ StreamStep

\* the runner advances, wraps and stores the write pointer
RunnerWp ==
  /\ Streaming /\ stream.run.pc = "wp"
  /\ LET run == stream.run
         wp == IF run.wp + run.thisrun = stream.r1
               THEN stream.r0 + 8 ELSE run.wp + run.thisrun
     IN stream' = [stream EXCEPT
          !.run = [run EXCEPT !.pc = "poll", !.wp = wp,
                              !.count = @ - run.thisrun \div 8,
                              !.next = @ + run.thisrun \div 8,
                              !.thisrun = 0],
          !.wp_cell = wp]
  /\ hw' = hw
  /\ StreamStep

\* the stub has stopped: the runner returns (a read pointer of 0 is a failure
\* of the stub), then lines 801-826 and lines 864-871
WriteFinish ==
  /\ Streaming /\ stream.run.pc = "wait" /\ stream.stub.pc = "halted"
  /\ LET retval == IF stream.run.retval = "ERROR_OK" /\ stream.rp_cell = 0
                   THEN "ERROR_FLASH_OPERATION_FAILED" ELSE stream.run.retval
         c == BlockError([stream.c EXCEPT !.hw = hw], retval, stream.stub.r0out)
     IN WriteReturns(WriteEpilogue(c),
                     {a \in areas : a.call # stream.call},
                     stream.offset, stream.count, stream.programmed)
  /\ UNCHANGED <<halted, parts, bank, info, nops>>

NextStream ==
  \/ WriteCall \/ TargetState \/ Return
  \/ StubPoll \/ StubCopyLo \/ StubCopyHi \/ StubBusy \/ StubPublish
  \/ RunnerPoll \/ RunnerData \/ RunnerWp
  \/ WriteFinish

SpecStream == InitStream /\ [][NextStream]_vars

(***************************************************************************)
(* The stub specification: one write call of N flash words, N from 0, on a *)
(* halted target with a working area and a transport that does not fail;   *)
(* the stub runs on the target's core and the runner in the host's loop,   *)
(* so each of their steps is taken once it stays possible.                 *)
(***************************************************************************)
MaxStubCalls == 1
MaxStubWords == 3
StubPool == 600
StubPlan == [fail |-> 0, upload_ok |-> TRUE, runner_fail |-> FALSE]

StubCall ==
  /\ Idle /\ nops < MaxStubCalls
  /\ \E offset \in {0, 8}, n \in 0..MaxStubWords :
       WriteCallWith(offset, 8 * n, StubPool, StubPlan)
  /\ nops' = nops + 1
  /\ UNCHANGED <<halted, parts, bank, info>>

NextStub ==
  \/ StubCall
  \/ StubPoll \/ StubCopyLo \/ StubCopyHi \/ StubBusy \/ StubPublish
  \/ RunnerPoll \/ RunnerData \/ RunnerWp
  \/ WriteFinish

SpecStub ==
  /\ InitStream /\ [][NextStub]_vars
  /\ WF_vars(StubPoll) /\ WF_vars(StubCopyLo) /\ WF_vars(StubCopyHi)
  /\ WF_vars(StubBusy) /\ WF_vars(StubPublish)
  /\ WF_vars(RunnerPoll) /\ WF_vars(RunnerData) /\ WF_vars(RunnerWp)
  /\ WF_vars(WriteFinish)

(***************************************************************************)
(* The allocation specification: write calls of one flash word against     *)
(* working areas of several sizes, around the sizes at which the ring loop *)
(* of write_block changes its answer.                                      *)
(***************************************************************************)
MaxAllocCalls == 2

\* bytes of working area: none, the stub only, the stub and 256, 257, 511,
\* 512, 8192, 16383, 16384 bytes, and more
AllocPools == {0, 84, 340, 341, 595, 596, 8276, 16467, 16468, 20000}

AllocCall ==
  /\ Idle /\ nops < MaxAllocCalls
  /\ \E pool \in AllocPools, upload_ok \in BOOLEAN :
       WriteCallWith(0, 8, pool,
                     [fail |-> 0, upload_ok |-> upload_ok, runner_fail |-> FALSE])
  /\ nops' = nops + 1
  /\ UNCHANGED <<halted, parts, bank, info>>

NextAlloc ==
  \/ AllocCall \/ Return
  \/ StubPoll \/ StubCopyLo \/ StubCopyHi \/ StubBusy \/ StubPublish
  \/ RunnerPoll \/ RunnerData \/ RunnerWp
  \/ WriteFinish

SpecAlloc == InitStream /\ [][NextAlloc]_vars

(***************************************************************************)
(* The entry specification: the four operations that change the flash,     *)
(* each called once on a probed bank, with the target halted or running.   *)
(***************************************************************************)
MaxCalls == 1

EntryErase == nops < MaxCalls /\ Erase
EntryProtect == nops < MaxCalls /\ Protect
EntryMassErase == nops < MaxCalls /\ MassErase
EntryWrite == nops < MaxCalls /\ WriteCall

NextEntry ==
  \/ EntryErase \/ EntryProtect \/ EntryMassErase \/ EntryWrite
  \/ TargetState \/ Return
  \/ StubPoll \/ StubCopyLo \/ StubCopyHi \/ StubBusy \/ StubPublish
  \/ RunnerPoll \/ RunnerData \/ RunnerWp
  \/ WriteFinish

SpecEntry == Init /\ [][NextEntry]_vars

(***************************************************************************)
(* The command specification: the stm32l4x commands on a probed bank, one  *)
(* at a time, with the target halted or running.                           *)
(***************************************************************************)
MaxCmds == 2

LockCommand ==
  /\ Idle /\ nops < MaxCmds
  /\ \E plan \in Plans :
       Commit(stm32x_handle_lock_command(Ctx(plan), Part, halted),
              "lock", FALSE, 0, 0)

UnlockCommand ==
  /\ Idle /\ nops < MaxCmds
  /\ \E plan \in Plans :
       Commit(stm32x_handle_unlock_command(Ctx(plan), Part, halted),
              "unlock", FALSE, 0, 0)

MassEraseCommand ==
  /\ Idle /\ nops < MaxCmds
  /\ \E plan \in Plans :
       Commit(stm32x_handle_mass_erase_command(Ctx(plan), Part, halted),
              "mass_erase", FALSE, 0, 0)

WindowWatchdogSelection ==
  /\ Idle /\ nops < MaxCmds
  /\ \E plan \in Plans, enable \in BOOLEAN :
       Commit(stm32x_window_watchdog_selection(Ctx(plan), Part, enable),
              "window_watchdog_soft_selection", enable, 0, 0)

WatchdogStandby ==
  /\ Idle /\ nops < MaxCmds
  /\ \E plan \in Plans, enable \in BOOLEAN :
       Commit(stm32x_watchdog_standby(Ctx(plan), Part, enable),
              "independent_watchdog_standby", enable, 0, 0)

WatchdogStop ==
  /\ Idle /\ nops < MaxCmds
  /\ \E plan \in Plans, enable \in BOOLEAN :
       Commit(stm32x_watchdog_stop(Ctx(plan), Part, enable),
              "independent_watchdog_stop", enable, 0, 0)

WatchdogSelection ==
  /\ Idle /\ nops < MaxCmds
  /\ \E plan \in Plans, enable \in BOOLEAN :
       Commit(stm32x_watchdog_selection(Ctx(plan), Part, enable),
              "independent_watchdog_soft_selection", enable, 0, 0)

NextCmd ==
  \/ LockCommand \/ UnlockCommand \/ MassEraseCommand
  \/ WindowWatchdogSelection \/ WatchdogStandby \/ WatchdogStop
  \/ WatchdogSelection
  \/ Return \/ TargetState

SpecCmd == Init /\ [][NextCmd]_vars

(***************************************************************************)
(* The option specification: stm32x_write_options and stm32x_read_options  *)
(* called one after the other on a probed bank whose option cache holds    *)
(* any value a caller may have put there.                                  *)
(***************************************************************************)
MaxOptionOps == 2

\* the zones (start, end) the cache is tried with: empty, one page, a range
\* that needs all eight bits
WrpZones == {<<255, 0>>, <<1, 1>>, <<3, 200>>}

\* bits of user_options: bits 8..11 are where OPTR keeps the watchdog flags
UserOptionBits == {{}, {0, 9}, {8, 11, 23}}

OptionValues ==
  {[user_options |-> u, RDP |-> 170,
    window_watchdog_selection |-> ww, independent_watchdog_standby |-> 0,
    independent_watchdog_stop |-> st, independent_watchdog_selection |-> 1,
    wpr1a_start |-> a[1], wpr1a_end |-> a[2], wpr1b_start |-> 255, wpr1b_end |-> 0,
    wpr2a_start |-> 255, wpr2a_end |-> 0, wpr2b_start |-> b[1], wpr2b_end |-> b[2]] :
     u \in UserOptionBits, ww \in {0, 1}, st \in {0, 1},
     a \in WrpZones, b \in WrpZones}

InitOptions ==
  \E cfg \in CtlProbes, X \in OptionValues :
    LET b0 == stm32x_flash_bank_command(cfg.size, 0)
        r == stm32x_probe(stm32l4x_parts, b0.bank, b0.info, cfg.in)
    IN /\ halted = TRUE
       /\ hw = [HwReset EXCEPT !.OPTR = cfg.optr]
       /\ parts = r.parts
       /\ bank = r.bank
       /\ info = [r.info EXCEPT !.option_bytes = X]
       /\ areas = {}
       /\ op = NoOp
       /\ nops = 0
       /\ stream = NoStream

WriteOptions ==
  /\ nops < MaxOptionOps
  /\ \E plan \in Plans :
       Commit(stm32x_write_options(Ctx(plan), Part), "write_options", FALSE, 0, 0)

ReadOptions ==
  /\ nops < MaxOptionOps
  /\ \E plan \in Plans :
       Commit(stm32x_read_options(Ctx(plan), Part), "read_options", FALSE, 0, 0)

NextOptions == WriteOptions \/ ReadOptions

SpecOptions == InitOptions /\ [][NextOptions]_vars

(***************************************************************************)
(* The unlock specification: stm32x_unlock_reg and                         *)
(* stm32x_unlock_option_reg called in any order on the controller after    *)
(* reset, and the CR writes with which the driver sets the lock bits again. *)
(***************************************************************************)
MaxUnlocks == 4

UnlockReg ==
  /\ nops < MaxUnlocks
  /\ \E plan \in Plans :
       Commit(stm32x_unlock_reg(Ctx(plan)), "unlock_reg", FALSE, 0, 0)

UnlockOptionReg ==
  /\ nops < MaxUnlocks
  /\ \E plan \in Plans :
       Commit(stm32x_unlock_option_reg(Ctx(plan)), "unlock_option_reg", FALSE, 0, 0)

\* lines 542, 637, 871: target_write_u32 of FLASH_OPTLOCK or FLASH_LOCK to CR
LockReg ==
  /\ nops < MaxUnlocks
  /\ \E plan \in Plans, v \in {FLASH_LOCK, FLASH_OPTLOCK} :
       Commit(target_write_u32(Ctx(plan), "CR", v), "lock_reg", FALSE, 0, 0)

NextUnlock == UnlockReg \/ UnlockOptionReg \/ LockReg

SpecUnlock == Init /\ [][NextUnlock]_vars

(***************************************************************************)
(* Properties of the controller specification.                             *)
(***************************************************************************)
Returned == op.name # "none"

\* the call got a write through to CR
WroteCR(o) ==
  \E i \in 1..Len(o.log) : o.log[i].k = "w" /\ o.log[i].reg = "CR" /\ o.log[i].ok

\* the call cleared CR.LOCK: the second key went through to KEYR
UnlockedCR(o) ==
  \E i \in 1..Len(o.log) :
    o.log[i].k = "w" /\ o.log[i].reg = "KEYR" /\ o.log[i].v = KEY2 /\ o.log[i].ok

Locked == hw.CR \cap FLASH_LOCK # {}

\* C1: an operation that wrote CR and returns success returns with
\* CR.LOCK = 1.
C1_SuccessLeavesLocked ==
  (Returned /\ op.ret = "ERROR_OK" /\ WroteCR(op)) => Locked

\* C1: protect, through stm32x_write_options, returns success with CR unlocked
C1_ProtectReturnsUnlocked ==
  /\ op.name = "protect" /\ op.ret = "ERROR_OK" /\ WroteCR(op)
  /\ ~Locked

\* C2: every exit of an operation that unlocked CR leaves CR.LOCK set, except
\* the failure exits of erase and of write.
C2_EveryExitRelocks ==
  (Returned /\ UnlockedCR(op)
     /\ ~(op.name \in {"erase", "write"} /\ op.ret # "ERROR_OK"))
  => Locked

\* C2: a failure exit of mass_erase taken after the unlock, CR left unlocked
C2_MassEraseFailsUnlocked ==
  /\ op.name = "mass_erase" /\ op.ret # "ERROR_OK" /\ UnlockedCR(op)
  /\ ~Locked

\* C3: an operation that polled the controller returns, with success or
\* failure, with no FLASH_ERROR bit left in SR.
C3_ErrorsClearedAtReturn ==
  (Returned /\ op.waits # <<>>) => hw.SR \cap FLASH_ERROR = {}

\* C3: the timeout exit of the poll returns with an error bit still latched
C3_TimeoutLeavesErrors ==
  /\ Returned /\ op.waits # <<>>
  /\ op.waits[Len(op.waits)].status \cap FLASH_BSY # {}
  /\ hw.SR \cap FLASH_ERROR # {}

\* C4: a poll that read SR with BSY = 0 and an error bit set writes exactly
\* the error bits back to SR and returns a failure; it returns success only
\* when no error bit was set.
C4_ErrorBitsFailTheWait ==
  \A i \in 1..Len(op.waits) :
    LET w == op.waits[i]
    IN (w.status \cap FLASH_BSY = {} /\ w.status \cap FLASH_ERROR # {})
       => (w.wrote = w.status \cap FLASH_ERROR /\ w.ret # "ERROR_OK")

\* C4: a poll that read an error bit other than WRPERR and returned success
C4_ErrorBitReturnsSuccess ==
  \E i \in 1..Len(op.waits) :
    /\ op.waits[i].status \cap FLASH_BSY = {}
    /\ op.waits[i].status \cap (FLASH_ERROR \ FLASH_WRPERR) # {}
    /\ op.waits[i].status \cap FLASH_WRPERR = {}
    /\ op.waits[i].ret = "ERROR_OK"

(***************************************************************************)
(* Properties of the probe specification.                                  *)
(***************************************************************************)
\* the sizes of sectors lo..hi, added up by halves
RECURSIVE SumRange(_, _, _)
SumRange(secs, lo, hi) ==
  IF lo > hi THEN 0
  ELSE IF lo = hi THEN secs[lo].size
  ELSE LET mid == (lo + hi) \div 2
       IN SumRange(secs, lo, mid) + SumRange(secs, mid + 1, hi)

SumSizes(secs) == SumRange(secs, 1, Len(secs))

Contiguous(secs) ==
  /\ Len(secs) > 0 => secs[1].offset = 0
  /\ \A i \in 1..(Len(secs) - 1) : secs[i + 1].offset = secs[i].offset + secs[i].size

\* C9: on every bank on which probe succeeded, the sector sizes sum to
\* bank.size, sector 0 starts at offset 0 and each sector starts where the
\* one before it ends.
C9_SectorsCoverBank ==
  info.probed # 0 => (SumSizes(bank.sectors) = bank.size /\ Contiguous(bank.sectors))

\* C9: a probed bank whose sectors do not add up to its size
C9_SizeNotCovered ==
  /\ info.probed # 0 /\ op.ret = "ERROR_OK"
  /\ Contiguous(bank.sectors)
  /\ SumSizes(bank.sectors) < bank.size

\* C10 as stated: the sector array is non-null if and only if probed is true.
C10_SectorsIffProbed ==
  bank.sectors_ptr # "NULL" <=> info.probed # 0

\* C10, amended: whenever probed is true the sector array is non-null (a
\* failed probe after a successful one clears probed and keeps the array).
C10_ProbedHasSectors ==
  info.probed # 0 => bank.sectors_ptr # "NULL"

\* C10: a probe that succeeded after an earlier probe call
C10_ReprobeSucceeded ==
  /\ nops = MaxProbes /\ op.name = "probe" /\ op.ret = "ERROR_OK"
  /\ info.probed # 0 /\ bank.sectors_ptr = "heap"

(***************************************************************************)
(* Properties of the streaming specification.                              *)
(***************************************************************************)
AreasOf(kind) == {a \in areas : a.kind = kind}

\* C5: write_block holds at most one code area and one ring at any time and
\* has freed every working area it allocated when it returns.
C5_AreasFreedOnEveryExit ==
  /\ Cardinality(AreasOf("code")) <= 1
  /\ Cardinality(AreasOf("ring")) <= 1
  /\ ~Streaming => areas = {}

\* C5: the stub upload failed and the call returned with the code area held
C5_UploadFailureLeaksCode ==
  /\ op.name = "write" /\ op.ret = "ERROR_TRANSPORT" /\ ~Streaming
  /\ AreasOf("code") # {}

\* the payload word the stub is on: the words before it are counted off r3
StubWord == BlockCount(stream.count) - stream.stub.r3 + 1

Holds(a, k, h) ==
  a \in stream.unread /\ stream.ring[Cell(stream, a)] = Half(k, h)

\* C6: in every interleaving, the stub starts copying a flash word out of the
\* ring only when the producer has put all 8 bytes of that word there.
C6_CopiesOnlyProducedWords ==
  Streaming =>
    /\ stream.stub.pc = "lo" =>
         /\ Holds(stream.stub.r5, StubWord, 0)
         /\ Holds(stream.stub.r5 + 4, StubWord, 1)
    /\ stream.stub.pc = "hi" => Holds(stream.stub.r5, StubWord, 1)

\* C6: the stub starts a copy from the first slot after it has gone round the ring
C6_CopyAfterWrap ==
  /\ Streaming /\ stream.stub.pc = "lo"
  /\ stream.stub.r5 = stream.r0 + 8
  /\ StubWord > (stream.r1 - stream.r0 - 8) \div 8

\* C7: in every interleaving, the producer never overwrites a ring slot the
\* stub has not finished with: the stub publishes a read pointer past a slot
\* only after reading both its halves, and the producer writes only into
\* cells that hold nothing unread.
C7_NoSlotReusedEarly ==
  Streaming =>
    /\ ~stream.overrun /\ ~stream.early
    /\ stream.stub.pc = "lo" => stream.rp_cell = stream.stub.r5
    /\ stream.stub.pc = "hi" => stream.rp_cell = stream.stub.r5 - 4
    /\ stream.run.pc = "data" =>
         {stream.run.wp + 4 * j : j \in 0..((stream.run.thisrun \div 4) - 1)}
           \cap stream.unread = {}

\* C7: the producer has just written a chunk into slots it had used before
C7_ProducerReusesSlots ==
  /\ Streaming /\ stream.run.pc = "wp"
  /\ stream.run.next > (stream.r1 - stream.r0 - 8) \div 8
  /\ stream.stub.pc \in {"lo", "hi"}

\* C8: whenever write returns success, every one of the ceil(count/8) words
\* from bank.base + offset on has been programmed by the stub, SR holds no
\* error bit and CR.LOCK = 1.
C8_SuccessMeansProgrammed ==
  (op.name = "write" /\ op.ret = "ERROR_OK") =>
    /\ Len(op.programmed) = BlockCount(op.count)
    /\ \A k \in 1..BlockCount(op.count) :
         op.programmed[k] = [addr |-> bank.base + op.offset + 8 * (k - 1),
                             lo |-> Half(k, 0), hi |-> Half(k, 1)]
    /\ hw.SR \cap FLASH_ERROR = {}
    /\ Locked

\* C8: write returned success without a working area, nothing programmed
C8_NoWorkingAreaSucceeds ==
  /\ op.name = "write" /\ op.ret = "ERROR_OK"
  /\ op.count > 0 /\ op.programmed = <<>>

(***************************************************************************)
(* Properties of the probing specification: what one probe takes from the  *)
(* target and what it takes from earlier probes.                           *)
(***************************************************************************)
KnownId(id) == id # -1 /\ \E n \in 1..Len(PartIds) : PartIds[n] = id % 4096

\* the flash size a probe works with before the configured size overrides it
\* (lines 917-922), for the registry entry reg
ProbedKb(reg, fsize) ==
  IF fsize = -1 \/ fsize = 0 \/ fsize > reg.max_flash_size_kb
  THEN reg.max_flash_size_kb ELSE fsize

\* C11: every probe that reads a device id whose low 12 bits are none of
\* 0x415, 0x435, 0x462, 0x461, 0x470 fails and leaves the bank unprobed.
C11_UnknownIdFailsUnprobed ==
  (op.name = "probe" /\ op.in.id # -1 /\ ~KnownId(op.in.id)) =>
    (op.ret = "ERROR_FAIL" /\ info.probed = 0)

\* C11: a probe that read an unknown id returned success on the part that
\* part_info already pointed to
C11_UnknownIdProbed ==
  /\ op.name = "probe" /\ op.in.id # -1 /\ ~KnownId(op.in.id)
  /\ op.ret = "ERROR_OK" /\ info.probed = 1 /\ info.idcode = op.in.id

\* C12: after every successful probe of a dual-bank part other than 0x470,
\* first_bank_sectors and hole_sectors are the split computed from the flash
\* size of this probe when DUALBANK is set and the size is below the
\* maximum, and the registry values otherwise.
C12_BankSplitFromThisProbe ==
  (op.name = "probe" /\ op.ret = "ERROR_OK" /\ KnownId(op.in.id)
     /\ op.in.id % 4096 # 1136) =>
    LET reg == stm32l4x_parts[info.part_info]
        kb == ProbedKb(reg, op.in.fsize)
        half == ((kb * 1024) \div reg.page_size) \div 2
    IN reg.has_dual_bank # 0 =>
         IF op.in.options \cap DUALBANK # {} /\ kb < reg.max_flash_size_kb
         THEN /\ Part.first_bank_sectors = half
              /\ Part.hole_sectors =
                   ((reg.max_flash_size_kb * 1024) \div reg.page_size) \div 2 - half
         ELSE /\ Part.first_bank_sectors = reg.first_bank_sectors
              /\ Part.hole_sectors = reg.hole_sectors

\* C12: a probe that read the full flash size returned success with the hole
\* an earlier probe had computed
C12_SplitOfEarlierProbe ==
  /\ op.name = "probe" /\ op.ret = "ERROR_OK" /\ op.in.id % 4096 = 1045
  /\ op.in.fsize = 0
  /\ Part.hole_sectors # 0

\* C13: after every successful probe of part 0x470 the sector table is built
\* with pages of 8192 bytes if the DBANK bit read by that probe is clear, and
\* of 4096 bytes if it is set.
C13_PageSizeFollowsDbank ==
  (op.name = "probe" /\ op.ret = "ERROR_OK" /\ KnownId(op.in.id)
     /\ op.in.id % 4096 = 1136) =>
    LET page_size == IF op.in.options \cap DBANK = {} THEN 8192 ELSE 4096
    IN /\ Part.page_size = page_size
       /\ \A i \in 1..Len(bank.sectors) :
            /\ bank.sectors[i].size = page_size
            /\ bank.sectors[i].offset = (i - 1) * page_size

\* C13: a probe that read DBANK set built the table with the 8192-byte pages
\* an earlier probe had left in the registry
C13_StalePageSize ==
  /\ op.name = "probe" /\ op.ret = "ERROR_OK" /\ op.in.id % 4096 = 1136
  /\ op.in.options \cap DBANK # {}
  /\ bank.sectors # <<>> /\ bank.sectors[1].size = 8192

(***************************************************************************)
(* Properties of the controller specification: the sector flags.           *)
(***************************************************************************)
AllProtected == \A i \in 1..Len(bank.sectors) : bank.sectors[i].is_protected = 1

C15_AutoProbeSkipsOrProbes ==
  [][op'.name = "auto_probe" =>
       IF info.probed # 0
       THEN /\ op'.ret = "ERROR_OK" /\ op'.log = <<>>
            /\ UNCHANGED <<parts, bank, info, hw, halted>>
       ELSE LET r == stm32x_probe(parts, bank, info, op'.in)
            IN /\ op'.ret = r.ret /\ op'.log = r.log
               /\ parts' = r.parts /\ bank' = r.bank /\ info' = r.info]_vars

\* C15: auto_probe has returned on a bank that was probed already, without a
\* target read, whatever the target would have answered
C15_AutoProbeSkipped ==
  /\ nops = 2 /\ op.name = "auto_probe" /\ op.ret = "ERROR_OK" /\ op.log = <<>>
  /\ info.probed = 1 /\ op.in.id = -1

(***************************************************************************)
(* Properties of the controller specification: erase.                      *)
(***************************************************************************)
IsCRWrite(e) == e.k = "w" /\ e.reg = "CR"

\* the positions in the log of the call's writes to CR, in order
CRWrites(o) == SelectSeq([j \in 1..Len(o.log) |-> j], LAMBDA j : IsCRWrite(o.log[j]))

\* the erase command for sector i as a 32-bit word
EraseWord(i) ==
  IF i < Part.first_bank_sectors
  THEN FLASH_PER \cup Shl(BitsOf(i), 3) \cup FLASH_START
  ELSE FLASH_BKER \cup FLASH_PER \cup Shl(BitsOf(i + Part.hole_sectors), 3)
       \cup FLASH_START

\* C16: erase(first, last) on a halted target writes to CR one erase command
\* per sector, from first to last in ascending order: PER | i << 3 | START
\* below first_bank_sectors, BKER | PER | (i + hole_sectors) << 3 | START
\* from there on; each command is followed by a busy-wait before the next
\* write to CR; a successful erase writes all of them and then LOCK.
C16_OneCommandPerSector ==
  op.name = "erase" =>
    LET w == CRWrites(op)
        n == op.last - op.first + 1
    IN /\ Len(w) <= n + 1
       /\ \A m \in 1..Len(w) :
            IF m <= n
            THEN /\ op.log[w[m]].v = EraseWord(op.first + m - 1)
                 /\ op.log[w[m]].ok =>
                      /\ w[m] < Len(op.log)
                      /\ op.log[w[m] + 1].k = "r" /\ op.log[w[m] + 1].reg = "SR"
            ELSE op.log[w[m]].v = FLASH_LOCK
       /\ op.ret = "ERROR_OK" => Len(w) = n + 1

\* C16: a successful erase of a range that starts in the first bank and ends
\* in the second, behind the hole
C16_ErasedAcrossBanks ==
  /\ op.name = "erase" /\ op.ret = "ERROR_OK"
  /\ op.first < Part.first_bank_sectors /\ Part.first_bank_sectors <= op.last
  /\ Part.hole_sectors > 0
  /\ Len(CRWrites(op)) = 3

\* sector number i (from 0) of the bank, as the sector table holds it
Sector(b, i) == b.sectors[i + 1]

\* C17: after erase(first, last) returns success, is_erased is 1 for every
\* sector in first..last, and the is_erased and is_protected values of every
\* sector outside first..last are what they were before the call.
C17_ErasedRangeOnly ==
  [][(op'.name = "erase" /\ op'.ret = "ERROR_OK") =>
       /\ Len(bank'.sectors) = Len(bank.sectors)
       /\ \A i \in 0..(Len(bank.sectors) - 1) :
            IF op'.first <= i /\ i <= op'.last
            THEN Sector(bank', i).is_erased = 1
            ELSE /\ Sector(bank', i).is_erased = Sector(bank, i).is_erased
                 /\ Sector(bank', i).is_protected = Sector(bank, i).is_protected]_vars

\* C17: erase has returned success on two sectors and a sector outside the
\* range is still in the unknown state the probe left it in
C17_ErasedTwoOfBank ==
  /\ op.name = "erase" /\ op.ret = "ERROR_OK" /\ op.first < op.last
  /\ Sector(bank, op.first).is_erased = 1 /\ Sector(bank, op.last).is_erased = 1
  /\ \E i \in 0..(Len(bank.sectors) - 1) : Sector(bank, i).is_erased = -1

\* C18: if the busy-wait for sector i fails during erase(first, last), erase
\* returns that failure at once: the wait is the last thing the call did,
\* no erase command follows for a later sector, LOCK is not written to CR,
\* sectors first..i-1 are marked erased and every other sector, i and the
\* later ones included, keeps the is_erased value it had.
C18_FailedWaitStopsErase ==
  [][(op'.name = "erase" /\ op'.waits # <<>>
        /\ op'.waits[Len(op'.waits)].ret # "ERROR_OK") =>
       LET k == Len(op'.waits)
           i == op'.first + k - 1
           w == CRWrites(op')
           end == op'.log[Len(op'.log)]
       IN /\ op'.ret = op'.waits[k].ret
          /\ i <= op'.last
          /\ Len(w) = k
          /\ \A m \in 1..k : /\ op'.log[w[m]].v = EraseWord(op'.first + m - 1)
                              /\ op'.log[w[m]].v \cap FLASH_LOCK = {}
          /\ end.reg = "SR" /\ w[k] < Len(op'.log)
          /\ Len(bank'.sectors) = Len(bank.sectors)
          /\ \A j \in 0..(Len(bank.sectors) - 1) :
               IF op'.first <= j /\ j < i
               THEN Sector(bank', j).is_erased = 1
               ELSE Sector(bank', j).is_erased = Sector(bank, j).is_erased]_vars

\* C18: the busy-wait of the second sector of the range failed: the first is
\* marked erased, the second is not, and CR was left unlocked
C18_SecondSectorFailed ==
  /\ op.name = "erase" /\ op.ret # "ERROR_OK" /\ op.first < op.last
  /\ Len(op.waits) = 2 /\ op.waits[2].ret = op.ret
  /\ Sector(bank, op.first).is_erased = 1 /\ Sector(bank, op.last).is_erased = -1
  /\ ~Locked

(***************************************************************************)
(* Properties of the entry specification.                                  *)
(***************************************************************************)
\* the step is the call of one of the operations that change the flash
Called == Idle /\ op'.name \in {"erase", "protect", "mass_erase", "write"}

\* the call touched no register of the target and changed nothing the driver
\* keeps: sector flags, cached option bytes, part table, working areas, and
\* with the registers the lock state
NothingDone ==
  /\ op'.log = <<>> /\ op'.waits = <<>> /\ op'.programmed = <<>>
  /\ UNCHANGED <<hw, parts, bank, info, areas, stream, halted>>

\* C19: erase, write, protect and mass_erase called while the target is not
\* halted return ERROR_TARGET_NOT_HALTED, and write called on a halted target
\* with an offset that is not a multiple of 8 returns
\* ERROR_FLASH_DST_BREAKS_ALIGNMENT; in both cases before any access to a
\* target register and without any change of the bank state.
C19_EntryChecksFirst ==
  [][Called =>
       /\ ~halted => (op'.ret = "ERROR_TARGET_NOT_HALTED" /\ NothingDone)
       /\ (halted /\ op'.name = "write" /\ op'.offset % 8 # 0) =>
            (op'.ret = "ERROR_FLASH_DST_BREAKS_ALIGNMENT" /\ NothingDone)]_vars

\* C19: write was called with a misaligned offset on a running target and
\* returned for the target state
C19_RunningAndMisaligned ==
  /\ op.name = "write" /\ ~halted /\ op.offset % 8 # 0
  /\ op.ret = "ERROR_TARGET_NOT_HALTED" /\ op.log = <<>>

(***************************************************************************)
(* Properties of the command specification.                                *)
(***************************************************************************)
Commands ==
  {"lock", "unlock", "mass_erase", "window_watchdog_soft_selection",
   "independent_watchdog_standby", "independent_watchdog_stop",
   "independent_watchdog_soft_selection"}

\* the call issued a write to a register of the flash controller
WroteRegister(o) == \E j \in 1..Len(o.log) : o.log[j].k = "w"

\* C20: each of the seven stm32l4x commands run while the target is not
\* halted fails and performs no write to any flash-controller register.
C20_CommandsNeedHalt ==
  (op.name \in Commands /\ ~halted) =>
    (op.ret # "ERROR_OK" /\ ~WroteRegister(op))

\* C20: a watchdog command run on a running target has written the keys and
\* the option registers, started the option programming and returned success
C20_OptionsWrittenWhileRunning ==
  /\ op.name = "window_watchdog_soft_selection" /\ ~halted
  /\ op.ret = "ERROR_OK"
  /\ \E j \in 1..Len(op.log) :
       op.log[j].k = "w" /\ op.log[j].reg = "OPTR" /\ op.log[j].ok
  /\ \E j \in 1..Len(op.log) :
       op.log[j].k = "w" /\ op.log[j].reg = "CR" /\ op.log[j].v = FLASH_OPTSTRT
         /\ op.log[j].ok

\* a target access of the call failed, other than the write that clears the
\* latched error bits, whose failure stm32x_wait_status_busy ignores
AccessFailed(o) ==
  \E j \in 1..Len(o.log) :
    ~o.log[j].ok /\ ~(o.log[j].k = "w" /\ o.log[j].reg = "SR")

\* a busy-wait of the call returned a failure
WaitFailed(o) == \E j \in 1..Len(o.waits) : o.waits[j].ret # "ERROR_OK"

\* C21: each stm32l4x command returns a failure status whenever the option
\* read, the option write or the erase it performs fails.
C21_CommandsReportFailure ==
  (op.name \in Commands /\ (AccessFailed(op) \/ WaitFailed(op))) =>
    op.ret # "ERROR_OK"

\* C21: lock has returned success although the option programming it
\* started failed in the busy-wait
C21_LockHidesFailure ==
  /\ op.name = "lock" /\ op.ret = "ERROR_OK"
  /\ WaitFailed(op)
  /\ \E j \in 1..Len(op.log) :
       op.log[j].k = "w" /\ op.log[j].reg = "CR" /\ op.log[j].v = FLASH_OPTSTRT

(***************************************************************************)
(* Properties of the option specification.                                 *)
(***************************************************************************)
OptionRegisters == {"OPTR", "WRP1AR", "WRP1BR", "WRP2AR", "WRP2BR"}

\* the option registers hold what the call wrote to them
RegistersHold(o) ==
  \A j \in 1..Len(o.log) :
    (o.log[j].k = "w" /\ o.log[j].reg \in OptionRegisters) =>
      hw[o.log[j].reg] = o.log[j].v

\* the step is a successful stm32x_read_options that follows a successful
\* stm32x_write_options whose values the registers hold
RoundTrip ==
  /\ op.name = "write_options" /\ op.ret = "ERROR_OK" /\ RegistersHold(op)
  /\ op'.name = "read_options" /\ op'.ret = "ERROR_OK"

\* user_options as OPTR gives it back: bits 8..11 are the four flags
FlagsInUserOptions(X) ==
  (X.user_options \ {8, 9, 10, 11})
    \cup (IF X.independent_watchdog_selection # 0 THEN {8} ELSE {})
    \cup (IF X.independent_watchdog_stop # 0 THEN {9} ELSE {})
    \cup (IF X.independent_watchdog_standby # 0 THEN {10} ELSE {})
    \cup (IF X.window_watchdog_selection # 0 THEN {11} ELSE {})

\* C22: for every option value X with RDP = 0xAA, write_options with the
\* cache set to X and then read_options, once the option registers hold
\* what was written, yields a cache equal to X in every field.
C22_RoundTripIdentity ==
  [][(RoundTrip /\ info.option_bytes.RDP = 170) =>
       info'.option_bytes = info.option_bytes]_vars

\* C22, amended: the round trip yields X in every field except that bits
\* 8..11 of user_options come back as the four watchdog flags of X; it
\* yields X itself when these bits of X agree with its flags.
C22_RoundTripUpToFlags ==
  [][(RoundTrip /\ info.option_bytes.RDP = 170) =>
       info'.option_bytes =
         [info.option_bytes EXCEPT !.user_options = FlagsInUserOptions(info.option_bytes)]]_vars

\* C22: the cache has gone through write_options and read_options on a
\* dual-bank part, with a zone that needs all eight bits of start and end
C22_RoundTripDone ==
  /\ nops = 2 /\ op.name = "read_options" /\ op.ret = "ERROR_OK"
  /\ Part.has_dual_bank # 0
  /\ info.option_bytes.RDP = 170
  /\ info.option_bytes.wpr2b_end = 200 /\ hw.WRP2BR = WrpWord(3, 200)
  /\ info.option_bytes.user_options = {8, 11, 23}

(***************************************************************************)
(* Properties of the controller specification: mass erase.                 *)
(***************************************************************************)
\* the bits mass_erase selects for this part
MassEraseBits == IF Part.has_dual_bank # 0 THEN FLASH_MER1 \cup FLASH_MER2 ELSE FLASH_MER1

\* C23: on a part without dual bank mass_erase never writes MER2 to CR: to
\* the CR value it read it adds MER1, then MER1 | START; on a dual-bank part
\* both writes carry MER1 and MER2; the first write is without START, the
\* second with START and directly after the first, and the busy-wait of the
\* erase comes after the START write.
C23_MassEraseBankBits ==
  op.name = "mass_erase" =>
    LET w == CRWrites(op)
    IN /\ Len(w) <= 3
       /\ Part.has_dual_bank = 0 =>
            \A m \in 1..Len(w) : op.log[w[m]].v \cap FLASH_MER2 = {}
       /\ Len(w) >= 1 =>
            /\ w[1] > 1 /\ op.log[w[1] - 1].k = "r" /\ op.log[w[1] - 1].reg = "CR"
            /\ op.log[w[1]].v = op.log[w[1] - 1].v \cup MassEraseBits
            /\ op.log[w[1]].v \cap FLASH_START = {}
            /\ Len(op.waits) >= 1
       /\ Len(w) >= 2 =>
            /\ w[2] = w[1] + 1
            /\ op.log[w[2]].v = op.log[w[1]].v \cup FLASH_START
            /\ op.log[w[2]].ok =>
                 /\ Len(op.log) > w[2]
                 /\ op.log[w[2] + 1].k = "r" /\ op.log[w[2] + 1].reg = "SR"
                 /\ Len(op.waits) = 2
                 /\ op.waits[2].timeout = FLASH_ERASE_TIMEOUT
       /\ (Len(w) < 2 \/ ~op.log[w[2]].ok) => Len(op.waits) <= 1
       /\ op.ret = "ERROR_OK" => Len(w) = 3

\* C23: mass_erase has returned success on the single-bank part
C23_SingleBankMassErased ==
  /\ op.name = "mass_erase" /\ op.ret = "ERROR_OK" /\ Part.has_dual_bank = 0
  /\ Len(CRWrites(op)) = 3
  /\ op.log[CRWrites(op)[2]].v \cap (FLASH_MER1 \cup FLASH_START)
       = FLASH_MER1 \cup FLASH_START

(***************************************************************************)
(* Properties of the controller specification: protection zones.           *)
(***************************************************************************)
\* the number of registers stm32x_read_options reads on this part
OptionReads == IF Part.has_dual_bank # 0 THEN 5 ELSE 3

\* the protect call got past its option read and planned its zones
Planned(o) == o.name = "protect" /\ Len(o.log) > OptionReads

\* the zone (start, end) a WRP register holds
ZoneIn(h, reg) == <<ValOf(h[reg] \cap (0..7)), ValOf(Shr(h[reg], 16) \cap (0..7))>>

\* a zone of the cache before protect plans: what read_options has just read
\* from the register, or on a part without second bank the cached value
ZoneRead(reg, cached) ==
  IF reg \in {"WRP1AR", "WRP1BR"} \/ Part.has_dual_bank # 0
  THEN ZoneIn(hw, reg) ELSE cached

EmptyZone == <<255, 0>>

\* C24: protect(set, first, last) with F = first_bank_sectors leaves in the
\* cache, before the options are written: for last < F, wpr1a = (first,
\* last) when set, else empty, and wpr1b empty; for first >= F, wpr2a =
\* (first-F, last-F) when set, else empty, and wpr2b empty; for first < F <=
\* last, wpr1a = (first, F-1) and wpr2a = (0, last-F) when set, else both
\* empty, and wpr1b and wpr2b empty; every other WRP field is as read.
C24_ZonesPlanned ==
  [][Planned(op') =>
       LET ob == info'.option_bytes
           old == info.option_bytes
           F == Part.first_bank_sectors
           first == op'.first
           last == op'.last
           set == op'.set
       IN /\ <<ob.wpr1a_start, ob.wpr1a_end>> =
               IF first >= F THEN ZoneRead("WRP1AR", EmptyZone)
               ELSE IF ~set THEN EmptyZone
               ELSE IF last < F THEN <<first, last>> ELSE <<first, F - 1>>
          /\ <<ob.wpr1b_start, ob.wpr1b_end>> =
               IF first >= F THEN ZoneRead("WRP1BR", EmptyZone) ELSE EmptyZone
          /\ <<ob.wpr2a_start, ob.wpr2a_end>> =
               IF last < F
               THEN ZoneRead("WRP2AR", <<old.wpr2a_start, old.wpr2a_end>>)
               ELSE IF ~set THEN EmptyZone
               ELSE IF first >= F THEN <<first - F, last - F>> ELSE <<0, last - F>>
          /\ <<ob.wpr2b_start, ob.wpr2b_end>> =
               IF last < F
               THEN ZoneRead("WRP2BR", <<old.wpr2b_start, old.wpr2b_end>>)
               ELSE EmptyZone]_vars

\* C24: protect has set a range that starts in the first bank and ends in
\* the second, after an earlier protect
C24_SpanningRangeSet ==
  /\ nops = 2 /\ Planned(op) /\ op.set /\ op.ret = "ERROR_OK"
  /\ op.first < Part.first_bank_sectors /\ Part.first_bank_sectors <= op.last
  /\ info.option_bytes.wpr2a_start = 0
  /\ info.option_bytes.wpr1a_end = Part.first_bank_sectors - 1

InZone(z, j) == z[1] <= j /\ j <= z[2]

\* sector i lies in one of the two zones the option registers hold for its
\* bank
InWrpZones(i) ==
  IF i < Part.first_bank_sectors
  THEN InZone(ZoneIn(hw, "WRP1AR"), i) \/ InZone(ZoneIn(hw, "WRP1BR"), i)
  ELSE \/ InZone(ZoneIn(hw, "WRP2AR"), i - Part.first_bank_sectors)
       \/ InZone(ZoneIn(hw, "WRP2BR"), i - Part.first_bank_sectors)

\* C25: after protect_check succeeds, sector i is marked protected if and
\* only if j lies in zone a or in zone b of its bank as the option registers
\* hold them, with j = i and the WRP1 pair below first_bank_sectors, and
\* j = i - first_bank_sectors and the WRP2 pair from there on; a zone with
\* start > end protects no sector.
C25_FlagsFollowZones ==
  (op.name = "protect_check" /\ op.ret = "ERROR_OK") =>
    \A i \in 0..(bank.num_sectors - 1) :
      Sector(bank, i).is_protected = (IF InWrpZones(i) THEN 1 ELSE 0)

\* C25: protect_check has run after a protect that spans the two banks:
\* one sector of each bank is marked protected, another is not
C25_CheckedBothBanks ==
  /\ op.name = "protect_check" /\ op.ret = "ERROR_OK" /\ Part.has_dual_bank # 0
  /\ ZoneIn(hw, "WRP1BR") = EmptyZone
  /\ \E i, k \in 0..(Part.first_bank_sectors - 1) :
       Sector(bank, i).is_protected = 1 /\ Sector(bank, k).is_protected = 0
  /\ \E i, k \in Part.first_bank_sectors..(bank.num_sectors - 1) :
       Sector(bank, i).is_protected = 1 /\ Sector(bank, k).is_protected = 0

\* a run without a fault
NoFault == [fail |-> 0, bad |-> 0, out |-> Clean, lostclear |-> FALSE]

\* sector i lies in a zone that the registers held before the call and that
\* a protect of first..last does not plan anew: the zones of the other bank
KeptZones(i, first, last) ==
  LET F == Part.first_bank_sectors
  IN IF i < F
     THEN first >= F
          /\ (InZone(ZoneIn(hw, "WRP1AR"), i) \/ InZone(ZoneIn(hw, "WRP1BR"), i))
     ELSE last < F
          /\ (InZone(ZoneIn(hw, "WRP2AR"), i - F) \/ InZone(ZoneIn(hw, "WRP2BR"), i - F))

\* C26: after a successful protect(set = true, a, b), a protect_check on the
\* registers the protect left marks every sector in a..b protected, and a
\* sector outside a..b protected if and only if it lies in a zone that was
\* there before and that the protect did not plan anew.
C26_CheckAgreesWithProtect ==
  [][(op'.name = "protect" /\ op'.set /\ op'.ret = "ERROR_OK") =>
       LET r == stm32x_protect_check(
                  [hw |-> hw', ob |-> info'.option_bytes, sectors |-> bank'.sectors,
                   ret |-> "ERROR_OK", n |-> 0, nw |-> 0, plan |-> NoFault,
                   log |-> <<>>, waits |-> <<>>], Part)
       IN /\ r.ret = "ERROR_OK"
          /\ \A i \in 0..(bank.num_sectors - 1) :
               r.sectors[i + 1].is_protected =
                 (IF (op'.first <= i /\ i <= op'.last)
                     \/ KeptZones(i, op'.first, op'.last) THEN 1 ELSE 0)]_vars

\* C26: protect has set a range in the second bank while a zone of the
\* first bank, set by an earlier protect, is still in the registers
C26_SecondBankAfterFirst ==
  /\ op.name = "protect" /\ op.set /\ op.ret = "ERROR_OK"
  /\ op.first >= Part.first_bank_sectors
  /\ ZoneIn(hw, "WRP1AR") # EmptyZone
  /\ ZoneIn(hw, "WRP2AR") = <<op.first - Part.first_bank_sectors,
                                op.last - Part.first_bank_sectors>>

(***************************************************************************)
(* C27: the stub and the error bits of SR.                                 *)
(***************************************************************************)
\* the step of the stub that ends its busy-wait on a word
StubChecksWord ==
  /\ Streaming /\ stream.stub.pc = "busy"
  /\ stream'.phase = "running" /\ stream'.stub.pc # "busy"

\* C27: when the stub has programmed a word and SR shows any bit of
\* FLASH_ERROR, the stub programs no further word: it halts at its breakpoint
\* with the error bits of SR in r0, a value other than zero.
C27_StubStopsOnAnyError ==
  [][(StubChecksWord /\ hw'.SR \cap FLASH_ERROR # {}) =>
       /\ stream'.stub.pc = "halted"
       /\ stream'.stub.r0out # 0
       /\ BitsOf(stream'.stub.r0out) \cap FLASH_ERROR = hw'.SR \cap FLASH_ERROR]_vars

\* C27: SR shows OPTVERR after an earlier word and the stub has started the
\* next word
C27_NextWordAfterError ==
  /\ Streaming /\ stream.stub.pc = "busy"
  /\ FLASH_OPTVERR \subseteq hw.SR
  /\ Len(stream.programmed) >= 1

(***************************************************************************)
(* C28: the stub at its breakpoint after the last word.                    *)
(***************************************************************************)
\* the stub counted its last word (r3 reached 0) and SR shows no error
StubDoneClean ==
  /\ Streaming /\ stream.stub.pc = "halted" /\ stream.stub.r3 = 0
  /\ Len(stream.programmed) = BlockCount(stream.count)
  /\ hw.SR \cap FLASH_ERROR = {}

\* C28: when the stub has programmed its last word without error, it is at
\* its breakpoint with CR.PG cleared and r0 = 0.
C28_DoneWithPgCleared ==
  StubDoneClean => hw.CR \cap FLASH_PG = {} /\ stream.stub.r0out = 0

\* C28: the stub is at its breakpoint after its last word, r0 = 0, and CR
\* still has PG set
C28_DoneWithPgSet ==
  StubDoneClean /\ FLASH_PG \subseteq hw.CR /\ stream.stub.r0out = 0

(***************************************************************************)
(* C29: termination of the stub.                                           *)
(***************************************************************************)
\* the words of the call, in order, at consecutive addresses from
\* bank.base + offset, each with the low half and the high half of its payload
ProgrammedInOrder ==
  /\ Len(stream.programmed) = BlockCount(stream.count)
  /\ \A k \in 1..Len(stream.programmed) :
       stream.programmed[k] =
         [addr |-> bank.base + stream.offset + 8 * (k - 1),
          lo |-> Half(k, 0), hi |-> Half(k, 1)]

StubHalted == Streaming /\ stream.stub.pc = "halted"

\* the hypothesis of the claim has failed: the controller latched an error
ErrorLatched == hw.SR \cap FLASH_ERROR # {}

\* C29: for every number N >= 0 of words, with a producer that supplies the
\* N * 8 bytes and a controller that clears BSY and latches no error, the
\* stub eventually halts at its breakpoint having programmed exactly the N
\* words, in order, at consecutive addresses, low half then high half under
\* CR.PG; with N = 0 it halts having programmed nothing.
C29_StubTerminates ==
  Streaming ~> ((StubHalted /\ ProgrammedInOrder) \/ ErrorLatched)

\* the same from one word on: the stub tests its word count only after it
\* has programmed a word
StubTerminatesFromOneWord ==
  (Streaming /\ stream.count > 0) ~> ((StubHalted /\ ProgrammedInOrder) \/ ErrorLatched)

\* C29: the stub was started with no word to program, the runner has nothing
\* to supply and waits for the stub, and the stub waits for data
C29_StubWaitsWithNoWord ==
  /\ Streaming /\ stream.count = 0
  /\ stream.run.pc = "wait" /\ stream.stub.pc = "wait"
  /\ stream.stub.r3 = 0 /\ stream.programmed = <<>>

(***************************************************************************)
(* C30: the order of the register accesses of stm32x_write_options.        *)
(***************************************************************************)
\* the place of an access in the sequence of stm32x_write_options; 0 is an
\* access the sequence does not have
OptionStage(e) ==
  IF e.k = "w"
  THEN CASE e.reg = "KEYR" -> 1
         [] e.reg = "OPTKEYR" -> 2
         [] e.reg = "OPTR" -> 3
         [] e.reg = "WRP1AR" -> 4
         [] e.reg = "WRP1BR" -> 5
         [] e.reg = "WRP2AR" -> 6
         [] e.reg = "WRP2BR" -> 7
         [] e.reg = "CR" -> IF e.v = FLASH_OPTSTRT THEN 8
                            ELSE IF e.v = FLASH_OPTLOCK THEN 10 ELSE 0
         [] e.reg = "SR" -> 9
         [] OTHER -> 0
  ELSE CASE e.reg = "CR" -> 2
         [] e.reg = "SR" -> 9
         [] OTHER -> 0

\* a read of CR belongs to either unlock
OptionStageFrom(e) == IF e.k = "r" /\ e.reg = "CR" THEN 1 ELSE OptionStage(e)

\* the stages that are one access each
SingleStages == (3..8) \cup {10}

OptionsInOrder(o) ==
  /\ \A i \in 1..Len(o.log) : OptionStage(o.log[i]) # 0
  /\ \A i, j \in 1..Len(o.log) :
       i < j =>
         /\ OptionStageFrom(o.log[i]) <= OptionStage(o.log[j])
         /\ OptionStage(o.log[i]) \in SingleStages =>
              OptionStage(o.log[i]) < OptionStage(o.log[j])

\* the option registers the part has
PartOptionRegisters ==
  IF Part.has_dual_bank # 0 THEN OptionRegisters
  ELSE OptionRegisters \ {"WRP2AR", "WRP2BR"}

\* both unlocks returned success: every access so far went through and the
\* last value read from CR shows LOCK and OPTLOCK clear
UnlockedBefore(o, i) ==
  /\ \A j \in 1..(i - 1) : o.log[j].ok
  /\ \E j \in 1..(i - 1) :
       /\ o.log[j].k = "r" /\ o.log[j].reg = "CR"
       /\ o.log[j].v \cap (FLASH_LOCK \cup FLASH_OPTLOCK) = {}
       /\ \A m \in (j + 1)..(i - 1) : ~(o.log[m].k = "r" /\ o.log[m].reg = "CR")

StartAfterSetup(o) ==
  \A i \in 1..Len(o.log) :
    OptionStage(o.log[i]) = 8 =>
      /\ UnlockedBefore(o, i)
      /\ \A reg \in PartOptionRegisters :
           \E j \in 1..(i - 1) : o.log[j].k = "w" /\ o.log[j].reg = reg

\* the relock comes after the busy-wait, which polled SR and saw BSY clear
LockAfterWait(o) ==
  \A i \in 1..Len(o.log) :
    OptionStage(o.log[i]) = 10 =>
      /\ \E j \in 1..(i - 1) : o.log[j].k = "r" /\ o.log[j].reg = "SR" /\ o.log[j].ok
      /\ Len(o.waits) = 1
      /\ o.waits[1].ret = "ERROR_OK" /\ o.waits[1].status \cap FLASH_BSY = {}

NoSecondBankAccess(o) ==
  \A i \in 1..Len(o.log) : o.log[i].reg \notin {"WRP2AR", "WRP2BR"}

\* C30: stm32x_write_options accesses the registers in this order: the CR
\* unlock, the option unlock, the writes of OPTR, WRP1AR, WRP1BR (and of
\* WRP2AR, WRP2BR on a part with has_dual_bank), one CR write of OPTSTRT, the
\* busy-wait, one CR write of OPTLOCK; OPTSTRT is written only after both
\* unlocks succeeded and every option register was written; on a single-bank
\* part neither stm32x_read_options nor stm32x_write_options accesses WRP2AR
\* or WRP2BR.
C30_OptionWriteOrder ==
  /\ op.name = "write_options" =>
       OptionsInOrder(op) /\ StartAfterSetup(op) /\ LockAfterWait(op)
  /\ (op.name \in {"write_options", "read_options"} /\ Part.has_dual_bank = 0) =>
       NoSecondBankAccess(op)

\* C30: write_options on a dual-bank part went through both unlocks with
\* their keys, wrote the five option registers and ended with the relock
C30_DualBankOptionsWritten ==
  /\ op.name = "write_options" /\ op.ret = "ERROR_OK" /\ Part.has_dual_bank # 0
  /\ \A s \in 1..10 : \E i \in 1..Len(op.log) : OptionStage(op.log[i]) = s

(***************************************************************************)
(* C31: the two unlock functions.                                          *)
(***************************************************************************)
\* what one call of an unlock function does, seen from the state before it:
\* o is the call as it returned, cr the value of CR before the call
UnlockContract(o, cr, keyreg, k1, k2, lockbit) ==
  LET log == o.log
      locked == cr \cap lockbit # {}
      wroteKeys == \E i \in 1..Len(log) : log[i].k = "w"
  IN /\ Len(log) >= 1 /\ Len(log) <= 4
     /\ log[1].k = "r" /\ log[1].reg = "CR" /\ log[1].v = cr
     /\ wroteKeys <=> (log[1].ok /\ locked)
     /\ ~log[1].ok => Len(log) = 1 /\ o.ret # "ERROR_OK"
     /\ (log[1].ok /\ ~locked) => Len(log) = 1 /\ o.ret = "ERROR_OK"
     /\ (log[1].ok /\ locked) =>
          /\ Len(log) >= 2
          /\ log[2] = [k |-> "w", reg |-> keyreg, v |-> k1, ok |-> log[2].ok]
          /\ (Len(log) = 2) <=> ~log[2].ok
          /\ Len(log) >= 3 =>
               /\ log[3] = [k |-> "w", reg |-> keyreg, v |-> k2, ok |-> log[3].ok]
               /\ (Len(log) = 3) <=> ~log[3].ok
          /\ Len(log) = 4 => log[4].k = "r" /\ log[4].reg = "CR"
          /\ Len(log) < 4 => o.ret = "ERROR_TRANSPORT"
          /\ (Len(log) = 4 /\ log[4].ok) =>
               o.ret = IF log[4].v \cap lockbit # {}
                       THEN "ERROR_TARGET_FAILURE" ELSE "ERROR_OK"
          /\ (Len(log) = 4 /\ ~log[4].ok) => o.ret = "ERROR_TRANSPORT"

\* C31: stm32x_unlock_reg (stm32x_unlock_option_reg for OPTKEYR and OPTLOCK)
\* writes keys if and only if the lock bit it first read from CR is 1; it
\* then writes exactly KEY1 and KEY2 to the key register, nothing in between,
\* reads CR again and fails with ERROR_TARGET_FAILURE if the lock bit is
\* still 1; on a controller that is already unlocked it writes nothing,
\* leaves the controller as it is and returns success, however often it is
\* called.
C31_UnlockWritesKeysWhenLocked ==
  [][/\ op'.name = "unlock_reg" =>
          /\ UnlockContract(op', hw.CR, "KEYR", KEY1, KEY2, FLASH_LOCK)
          /\ (hw.CR \cap FLASH_LOCK = {}) => hw' = hw
     /\ op'.name = "unlock_option_reg" =>
          /\ UnlockContract(op', hw.CR, "OPTKEYR", OPTKEY1, OPTKEY2, FLASH_OPTLOCK)
          /\ (hw.CR \cap FLASH_OPTLOCK = {}) => hw' = hw]_vars

\* C31: the fourth call in a row of stm32x_unlock_option_reg: the controller
\* was unlocked before, the call wrote nothing and returned success
C31_UnlockedAgain ==
  /\ nops = MaxUnlocks /\ op.name = "unlock_option_reg" /\ op.ret = "ERROR_OK"
  /\ Len(op.log) = 1
  /\ hw.CR \cap (FLASH_LOCK \cup FLASH_OPTLOCK) = {}

(***************************************************************************)
(* C32: the ring allocation loop of write_block.                           *)
(***************************************************************************)
\* the ring sizes a write call asked for, in order
RingAsked(log) == SelectSeq(log, LAMBDA e : e.k = "a")

\* 16384 first, then half of the size refused before; nothing after a grant
HalvingFrom16K(r) ==
  /\ Len(r) <= 6
  /\ \A i \in 1..Len(r) :
       /\ ValOf(r[i].v) > 256
       /\ ValOf(r[i].v) = IF i = 1 THEN 16384 ELSE ValOf(r[i - 1].v) \div 2
       /\ i < Len(r) => ~r[i].ok

\* the areas of working memory the call numbered n holds
HeldBy(n) == {a \in areas : a.call = n}

\* C32: write_block asks for the ring with 16384, 8192, 4096, ... bytes,
\* halving after each refusal; the loop ends; the ring used is the first
\* size granted and is larger than 256 bytes; when every size above 256 is
\* refused, the stub's code area is freed and the call returns without the
\* runner being started.
C32_RingHalvesDownTo512 ==
  /\ Streaming =>
       LET r == RingAsked(stream.c.log)
       IN /\ HalvingFrom16K(r) /\ r # <<>> /\ r[Len(r)].ok
          /\ stream.r1 - stream.r0 = ValOf(r[Len(r)].v)
          /\ stream.r1 - stream.r0 > 256
          /\ \E a \in HeldBy(stream.call) :
               a.kind = "ring" /\ a.size = stream.r1 - stream.r0
  /\ (~Streaming /\ op.name = "write") =>
       LET r == RingAsked(op.log)
       IN /\ HalvingFrom16K(r)
          /\ (r # <<>> /\ ~r[Len(r)].ok) =>
               /\ Len(r) = 6 /\ ValOf(r[6].v) = 512
               /\ HeldBy(nops - 1) = {}
               /\ op.programmed = <<>>

\* C32: the working area had 511 bytes left after the stub: every size from
\* 16384 down to 512 was refused and the call returned with nothing held
C32_AllSizesRefused ==
  /\ ~Streaming /\ op.name = "write"
  /\ Len(RingAsked(op.log)) = 6 /\ ~RingAsked(op.log)[6].ok
  /\ HeldBy(nops - 1) = {}

\* C32: a ring of 8192 bytes after the refusal of 16384 bytes
C32_SecondSizeGranted ==
  /\ Streaming /\ Len(RingAsked(stream.c.log)) = 2
  /\ stream.r1 - stream.r0 = 8192

(***************************************************************************)
(* C33: the OPTR value of the watchdog option commands.                    *)
(***************************************************************************)
\* the flag bit of OPTR each watchdog command sets or clears
WatchdogBit ==
  [window_watchdog_soft_selection |-> WWWG_SW,
   independent_watchdog_standby |-> IWDG_STDBY,
   independent_watchdog_stop |-> IWDG_STOP,
   independent_watchdog_soft_selection |-> IDWG_SW]

WatchdogCommands == DOMAIN WatchdogBit

\* the start and end fields of a WRP word
WrpFields(v) == v \cap ((0..7) \cup (16..23))

\* C33: each watchdog option command writes to OPTR the value it has just
\* read from OPTR with its own flag bit 1 for enable and 0 for disable: RDP,
\* the three other flags and the remaining option bits go back as read, and
\* so do the zones of the WRP registers.
C33_WatchdogWritesOwnFlag ==
  op.name \in WatchdogCommands =>
    \A j \in 1..Len(op.log) :
      op.log[j].k = "w" =>
        /\ op.log[j].reg = "OPTR" =>
             \E i \in 1..(j - 1) :
               /\ op.log[i].k = "r" /\ op.log[i].reg = "OPTR" /\ op.log[i].ok
               /\ op.log[j].v = (op.log[i].v \ WatchdogBit[op.name])
                                \cup (IF op.set THEN WatchdogBit[op.name] ELSE {})
        /\ op.log[j].reg \in OptionRegisters \ {"OPTR"} =>
             \E i \in 1..(j - 1) :
               /\ op.log[i].k = "r" /\ op.log[i].reg = op.log[j].reg /\ op.log[i].ok
               /\ op.log[j].v = WrpFields(op.log[i].v)

\* C33: independent_watchdog_stop disable has written OPTR on a dual-bank
\* part after an earlier command had set another flag
C33_StopDisabledOthersKept ==
  /\ op.name = "independent_watchdog_stop" /\ ~op.set /\ op.ret = "ERROR_OK"
  /\ Part.has_dual_bank # 0
  /\ hw.OPTR \cap (WWWG_SW \cup IWDG_STDBY \cup IDWG_SW) # {}
  /\ hw.OPTR \cap IWDG_STOP = {}
  /\ \E j \in 1..Len(op.log) :
       op.log[j].k = "w" /\ op.log[j].reg = "OPTR" /\ op.log[j].v = hw.OPTR

(***************************************************************************)
(* C34: the CR value of mass_erase after earlier operations.               *)
(***************************************************************************)
\* the bits of CR that select the operation and its page
PageNumberBits == 3..10
OperationSelect ==
  FLASH_PG \cup FLASH_PER \cup FLASH_MER1 \cup FLASH_MER2 \cup FLASH_BKER
  \cup PageNumberBits

\* C34: whatever driver operations came before, a failed erase that returned
\* with CR unlocked included, the CR value mass_erase writes with START has,
\* among the operation-select bits, only MER1 (and MER2 on a dual-bank
\* part): never PG, PER, BKER or a page-number bit.
C34_MassEraseSelectsOnlyMer ==
  op.name = "mass_erase" =>
    \A j \in 1..Len(op.log) :
      (op.log[j].k = "w" /\ op.log[j].reg = "CR"
       /\ op.log[j].v \cap FLASH_START # {}) =>
        op.log[j].v \cap OperationSelect = MassEraseBits

\* C34: mass_erase has written START together with PER and a page number,
\* left in CR by an erase that failed in its busy-wait
C34_MassEraseWithPageErase ==
  /\ op.name = "mass_erase"
  /\ \E j \in 1..Len(op.log) :
       /\ op.log[j].k = "w" /\ op.log[j].reg = "CR" /\ op.log[j].ok
       /\ FLASH_START \cup FLASH_MER1 \cup FLASH_PER \subseteq op.log[j].v
       /\ op.log[j].v \cap PageNumberBits # {}

(***************************************************************************)
(* C35: the cached protection flags after protect.                         *)
(***************************************************************************)
\* the flags of the bank's sectors, in order
Flags(b) == [i \in 1..Len(b.sectors) |-> b.sectors[i].is_protected]

\* the flags stm32x_protect_check computes from the zones in a cache
FlagsOfZones(ob, b) ==
  [i \in 1..Len(b.sectors) |-> ProtectedBy(ob, Part.first_bank_sectors, i - 1)]

\* C35: after protect(set, first, last) has returned success, the cached
\* is_protected flag of every sector equals what protect_check computes from
\* the WRP zones this call wrote; and when protect fails in write_options,
\* the cached flags are those of before the call.
C35_FlagsMatchZonesWritten ==
  [][op'.name = "protect" =>
       /\ op'.ret = "ERROR_OK" =>
            Flags(bank') = FlagsOfZones(info'.option_bytes, bank')
       /\ (op'.ret # "ERROR_OK" /\ Planned(op')) => Flags(bank') = Flags(bank)]_vars

\* C35: protect returned success and a sector outside the zones it wrote is
\* still flagged protected
C35_FlaggedOutsideZones ==
  /\ op.name = "protect" /\ op.ret = "ERROR_OK" /\ RegistersHold(op)
  /\ \E i \in 1..Len(bank.sectors) :
       /\ bank.sectors[i].is_protected = 1
       /\ FlagsOfZones(info.option_bytes, bank)[i] = 0

(***************************************************************************)
(* C36: the read pointer in the ring header.                               *)
(***************************************************************************)
\* the read pointer is in the data region of the ring
InRingData == stream.r0 + 8 <= stream.rp_cell /\ stream.rp_cell < stream.r1

\* the stub stores the read pointer
StubStoresPointer ==
  /\ Streaming /\ stream.stub.pc = "publish"
  /\ stream'.phase = "running" /\ stream'.stub.pc # "publish"

\* C36: in every state of a streaming write the read pointer in the ring
\* header is 0 or an 8-byte-aligned address in [ring_start + 8, ring_end):
\* never ring_end, never a header word; on reaching ring_end it wraps to
\* ring_start + 8.
C36_ReadPointerAligned ==
  /\ [](Streaming => stream.rp_cell = 0 \/ (InRingData /\ stream.rp_cell % 8 = 0))
  /\ [][(StubStoresPointer /\ stream.stub.r5 = stream.r1) =>
          stream'.rp_cell = stream.r0 + 8]_vars

\* C36, with the alignment counted from the first slot: the read pointer is
\* 0 or a whole number of 8-byte blocks past ring_start + 8, inside
\* [ring_start + 8, ring_end), and wraps to ring_start + 8 at ring_end.
C36_ReadPointerOnBlock ==
  /\ [](Streaming =>
         \/ stream.rp_cell = 0
         \/ InRingData /\ (stream.rp_cell - (stream.r0 + 8)) % 8 = 0)
  /\ [][(StubStoresPointer /\ stream.stub.r5 = stream.r1) =>
          stream'.rp_cell = stream.r0 + 8]_vars

\* C36: the stub has read the last slot of the ring and the read pointer is
\* back at the first slot
C36_ReadPointerWrapped ==
  /\ Streaming /\ stream.rp_cell = stream.r0 + 8
  /\ Len(stream.programmed) * 8 = stream.r1 - stream.r0 - 8

(***************************************************************************)
(* The sector specification: probes of a dual-bank part whose flash size   *)
(* and DUALBANK/DBANK options change between probes, with or without a     *)
(* user size, and erases of single sectors of the bank the last probe      *)
(* built, stm32l4x.c:585-643 and 884-975.                                  *)
(***************************************************************************)
MaxSectorOps == 3

\* the size argument of the flash bank command, in bytes (0: take the probed one)
SectorSizes == {0, 524288}

\* what the target answers during a probe
SectorInputs ==
  [id : {IdCode(4103, 1045), IdCode(4096, 1136)},
   fsize : {256, 1024},
   options : {DUALBANK, DBANK \cup DUALBANK},
   malloc_ok : {TRUE}]

\* the sectors an erase is tried on: the ends of both banks
SectorsTried ==
  {0, Part.first_bank_sectors - 1, Part.first_bank_sectors, bank.num_sectors - 1}
    \cap (0..(bank.num_sectors - 1))

InitSectors ==
  \E size \in SectorSizes :
    LET b0 == stm32x_flash_bank_command(size, 0)
    IN /\ halted = TRUE
       /\ hw = HwReset
       /\ parts = stm32l4x_parts
       /\ bank = b0.bank
       /\ info = b0.info
       /\ areas = {}
       /\ op = NoOp
       /\ nops = 0
       /\ stream = NoStream

SectorProbe ==
  /\ nops < MaxSectorOps
  /\ \E in \in SectorInputs : Probed(stm32x_probe(parts, bank, info, in), "probe", in)

SectorErase ==
  /\ nops < MaxSectorOps
  /\ info.probed = 1
  /\ \E i \in SectorsTried :
       Commit(stm32x_erase(Ctx([fail |-> 0, bad |-> 0, out |-> Clean,
                                lostclear |-> FALSE]), Part, halted, i, i),
              "erase", FALSE, i, i)

NextSectors == SectorProbe \/ SectorErase

SpecSectors == InitSectors /\ [][NextSectors]_vars

\* the CR values of the call that select a page erase
PageErases(o) ==
  {o.log[k].v : k \in {j \in 1..Len(o.log) :
     o.log[j].k = "w" /\ o.log[j].reg = "CR" /\ FLASH_PER \subseteq o.log[j].v}}

\* an erase of one sector of the second bank has returned
SecondBankErased ==
  /\ op.name = "erase" /\ op.ret = "ERROR_OK"
  /\ op.first >= Part.first_bank_sectors
  /\ PageErases(op) # {}

\* C37: after any sequence of probes, the CR value erase writes for a sector
\* i >= first_bank_sectors has BKER set, holds i - first_bank_sectors in the
\* page-number field, bits 10..3, and has no bit outside PER, START, BKER
\* and that field
C37_SecondBankPageNumber ==
  SecondBankErased =>
    \A v \in PageErases(op) :
      /\ FLASH_BKER \subseteq v
      /\ ValOf(Shr(v \cap PageNumberBits, 3)) = op.first - Part.first_bank_sectors
      /\ v \subseteq FLASH_PER \cup FLASH_START \cup FLASH_BKER \cup PageNumberBits

\* the page number of an erase spilled past bit 11 of CR: the part table still
\* holds the bank split of an earlier, smaller flash size
C37_PageNumberSpilled ==
  /\ SecondBankErased
  /\ \E v \in PageErases(op) : 12 \in v
  /\ op.first + Part.hole_sectors >= 512
  /\ info.user_bank_size = 0

====
